---- MODULE Spec2Model ----
(***************************************************************************)
(* Node Identity & Secure Task Runner of create-ekka-desktop-app.          *)
(*                                                                         *)
(* The specifications of this module:                                      *)
(*   SpecCache  - get_valid() of the two session caches (pure function)    *)
(*   SpecGuard  - the single-flight guard NodeAuthStateHolder and its two   *)
(*                guarded paths (startup auth thread, runner task stats)    *)
(*   Spec       - the node session runner loop, its remote calls, the      *)
(*                heartbeat callbacks and the shutdown channel             *)
(*   LiveSpec   - Spec with the fairness of the loop and its callbacks     *)
(*   SpecLong   - Spec, also started at the end of a long outage           *)
(*   SpecVault  - the node vault: write, read, delete of a secret, and     *)
(*                the authentication that reads the credentials            *)
(*   SpecEpoch  - resolve_with_source() of the security epoch               *)
(*   SpecHome   - SpecVault on a home directory left by an earlier run, by  *)
(*                another release or by a damaged disk                     *)
(*   SpecStatus - RunnerState under the callbacks of the runner loop       *)
(*   SpecBootstrap - handle_bootstrap_node_session and the loops it spawns  *)
(*   SpecWriters - two concurrent write_node_secret calls for one secret id  *)
(*   SpecManagers - store_credentials and load_credentials of host and core  *)
(***************************************************************************)
EXTENDS FiniteSets, Integers, Naturals, Sequences, TLC

(***************************************************************************)
(* Bounds of the model                                                     *)
(***************************************************************************)
\* number of concurrent handle_runner_task_stats callers
NumStatsThreads == 2
\* the clock of SpecGuard and Spec stops here (seconds)
MaxNow == 60
\* largest clock value / expiry instant drawn in SpecCache (seconds)
GvMaxNow == 2
GvMaxExpires == 125

(***************************************************************************)
(* Program constants                                                       *)
(***************************************************************************)
\* the near-expiry margin of is_expired, in seconds
EXPIRY_MARGIN_SECS == 60

\* Option<T>: None, or Some(x)
None == <<>>
Some(x) == <<x>>

\* JSON values
JsonString(s) == <<"string", s>>
JsonNull == <<"null", "">>
JsonNumber == <<"number", "">>
JsonBool(b) == <<"bool", IF b THEN "true" ELSE "false">>

VARIABLES
    now,              \* Utc::now(), seconds
    \* --- SpecCache ---
    gv,               \* one get_valid() call: holder kind, stored token, result
    \* --- SpecEpoch ---
    ep,               \* the process environment, ENV_EPOCH_CACHE, the marker file
                      \* and the last resolve_with_source() call
    \* --- SpecStatus ---
    rs,               \* RunnerState: the lock, the RunnerStatus in it, and the
                      \* callbacks of the runner loop so far
    \* --- SpecBootstrap ---
    bs,               \* EngineState as handle_bootstrap_node_session uses it,
                      \* and the runner loops spawned so far
    \* --- SpecWriters ---
    cw,               \* two concurrent write_node_secret calls: the files of the
                      \* home by inode, and the position of each call
    \* --- SpecGuard ---
    auth_state,       \* NodeAuthStateHolder.state
    last_error,       \* NodeAuthStateHolder.last_error
    node_auth_token,  \* NodeAuthTokenHolder.inner: None or Some([expires_at])
    thr,              \* per thread: position, try_start result, requests issued
    alive,            \* FALSE once std::process::exit ran
    try_start_calls,  \* history: calls of try_start so far
    try_start_wins,   \* history: calls of try_start that returned true
    auth_requests,    \* history: authentication requests of the guarded paths
    \* --- Spec (runner) ---
    session_holder,   \* NodeSessionHolder.session: None or Some([expires_at])
    shutdown,         \* the watch channel: value, version, version seen, sender
    rpc,              \* position of run_node_session_runner_loop
    call,             \* the remote call in progress (poll/claim/complete/fail)
    tasks,            \* tasks of the batch not yet processed
    task,             \* the task of the current / last process_task
    consecutive_errors,
    backoff_secs,
    status,           \* RunnerStatus (through the callbacks)
    hb,               \* heartbeat callbacks invoked by the executor
    waited,           \* history since the last poll returned: its outcome, the
                      \* seconds slept, the failures counted before it
    \* --- SpecVault ---
    files,            \* the files of {home}/vault/node/values: path -> content
    device_secret,    \* the device secret file: None or Some(secret, chunks)
    dirs,             \* modes of the directories vault/node and vault/node/values
    vop,              \* the vault operation in progress or last finished
    last_write,       \* history: per secret id, the last write that returned Ok
    first_secret      \* history: the first device secret returned to a caller

guardVars == <<auth_state, last_error, node_auth_token, thr, alive,
               try_start_calls, try_start_wins, auth_requests>>
runnerVars == <<session_holder, shutdown, rpc, call, tasks, task,
                consecutive_errors, backoff_secs, status, hb, waited>>
vaultVars == <<files, device_secret, dirs, vop, last_write, first_secret>>
sideVars == <<rs, bs, cw>>
vars == <<now, gv, ep, sideVars, guardVars, runnerVars, vaultVars>>

(***************************************************************************)
(* Session cache: is_expired / get_valid                                   *)
(***************************************************************************)
\* variant of is_expired: the margin compared with > instead of >=
is_expired_strict(session, t) == t + EXPIRY_MARGIN_SECS > session.expires_at

\* NodeSession::is_expired, at time t
is_expired(session, t) == t + EXPIRY_MARGIN_SECS >= session.expires_at

\* NodeSessionHolder::get_valid, at time t
get_valid(stored, t) ==
    IF stored = None THEN None
    ELSE IF is_expired(stored[1], t) THEN None
    ELSE stored

\* NodeAuthToken::is_expired, at time t
token_is_expired(token, t) == t + EXPIRY_MARGIN_SECS >= token.expires_at

\* NodeAuthTokenHolder::get_valid, at time t
token_get_valid(stored, t) ==
    IF stored = None THEN None
    ELSE IF token_is_expired(stored[1], t) THEN None
    ELSE stored

Holders == {"NodeSessionHolder", "NodeAuthTokenHolder"}

GvInit ==
    gv \in [holder : Holders,
            stored : {None} \cup {Some(tok) : tok \in [expires_at : 0..GvMaxExpires]},
            at : 0..GvMaxNow,
            called : {FALSE},
            out : {None}]

\* one call of get_valid() on the holder at time gv.at
GvCall ==
    /\ ~gv.called
    /\ gv' = [gv EXCEPT !.called = TRUE,
                        !.out = IF gv.holder = "NodeSessionHolder"
                                THEN get_valid(gv.stored, gv.at)
                                ELSE token_get_valid(gv.stored, gv.at)]
    /\ UNCHANGED <<now, ep, sideVars, guardVars, runnerVars, vaultVars>>

\* no get_valid() probe: the value of gv in the other specifications
GvIdle ==
    [holder |-> "NodeSessionHolder", stored |-> None, at |-> 0,
     called |-> TRUE, out |-> None]

(***************************************************************************)
(* Single-flight guard: NodeAuthStateHolder                                *)
(***************************************************************************)
NodeAuthState == {"Unauthenticated", "Authenticating", "Authenticated", "Failed"}

\* variant of try_start_result: a failed guard admits a retry
try_start_result_retry(s) == s \in {"Unauthenticated", "Failed"}

\* NodeAuthStateHolder::try_start: the value returned from state s
try_start_result(s) == s = "Unauthenticated"

\* variant of try_start_state: the guard is not moved to Authenticating
try_start_state_unset(s) == s

\* NodeAuthStateHolder::try_start: the state left behind from state s
try_start_state(s) == IF s = "Unauthenticated" THEN "Authenticating" ELSE s

STARTUP == 0
StatsThreads == 1..NumStatsThreads
Threads == {STARTUP} \cup StatsThreads

\* lifetimes (seconds) of the tokens the identity endpoint may hand out
TokenLifetimes == {30, 120}

\* variant of node_auth_token_set: a token within its expiry margin is not kept
node_auth_token_set_unexpired(token) ==
    IF token_is_expired(token, now) THEN None ELSE Some(token)
\* NodeAuthTokenHolder::set
node_auth_token_set(token) == Some(token)

\* NodeAuthStateHolder::set_authenticated
set_authenticated == [state |-> "Authenticated", last_error |-> None]

\* variant of set_failed: a failure puts the guard back to Unauthenticated
set_failed_reset(error) == [state |-> "Unauthenticated", last_error |-> Some(error)]
\* NodeAuthStateHolder::set_failed
set_failed(error) == [state |-> "Failed", last_error |-> Some(error)]

ThreadInit(t) ==
    [pc |-> IF t = STARTUP THEN "init" ELSE "idle",
     tried |-> FALSE, started |-> FALSE, issued |-> 0, ret |-> "none"]

GuardInit ==
    /\ auth_state = "Unauthenticated"
    /\ last_error = None
    /\ node_auth_token = None
    /\ thr = [t \in Threads |-> ThreadInit(t)]
    /\ alive = TRUE
    /\ try_start_calls = 0
    /\ try_start_wins = 0
    /\ auth_requests = 0

\* the calling thread t runs try_start() and moves to okPc or returns
TryStartBy(t, okPc, failPc, failRet) ==
    LET r == try_start_result(auth_state) IN
    /\ auth_state' = try_start_state(auth_state)
    /\ try_start_calls' = try_start_calls + 1
    /\ try_start_wins' = try_start_wins + (IF r THEN 1 ELSE 0)
    /\ thr' = [thr EXCEPT ![t] = [@ EXCEPT !.tried = TRUE, !.started = r,
                                   !.pc = IF r THEN okPc ELSE failPc,
                                   !.ret = IF r THEN @ ELSE failRet]]

\* the calling thread t sends its authentication request
IssueAuthBy(t) ==
    /\ thr[t].pc = "auth"
    /\ thr' = [thr EXCEPT ![t] = [@ EXCEPT !.pc = "awaiting", !.issued = @ + 1]]
    /\ auth_requests' = auth_requests + 1

(* ---- startup auth thread (main.rs, PHASE 7) ---- *)
StartupTryStart ==
    /\ alive /\ thr[STARTUP].pc = "init"
    /\ TryStartBy(STARTUP, "auth", "done", "skipped")
    /\ UNCHANGED <<runnerVars, now, gv, ep, sideVars, last_error, node_auth_token, alive, auth_requests, vaultVars>>

StartupRequest ==
    /\ alive /\ IssueAuthBy(STARTUP)
    /\ UNCHANGED <<runnerVars, now, gv, ep, sideVars, auth_state, last_error, node_auth_token, alive,
                   try_start_calls, try_start_wins, vaultVars>>

\* set_authenticated by thread t: the write under the lock of `state`
SetAuthenticatedState(t) ==
    /\ alive /\ thr[t].pc = "set_authenticated"
    /\ auth_state' = set_authenticated.state
    /\ thr' = [thr EXCEPT ![t] = [@ EXCEPT !.pc = "clear_error"]]
    /\ UNCHANGED <<runnerVars, now, gv, ep, sideVars, last_error, node_auth_token, alive,
                   try_start_calls, try_start_wins, auth_requests, vaultVars>>

\* set_authenticated by thread t: the write under the lock of `last_error`
SetAuthenticatedError(t) ==
    /\ alive /\ thr[t].pc = "clear_error"
    /\ last_error' = set_authenticated.last_error
    /\ thr' = [thr EXCEPT ![t] = IF t = STARTUP
                                   THEN [@ EXCEPT !.pc = "done", !.ret = "ok"]
                                   ELSE [@ EXCEPT !.pc = "proceed"]]
    /\ UNCHANGED <<runnerVars, now, gv, ep, sideVars, auth_state, node_auth_token, alive,
                   try_start_calls, try_start_wins, auth_requests, vaultVars>>

\* set_failed by thread t: the write under the lock of `last_error`
SetFailedError(t) ==
    /\ alive /\ thr[t].pc = "record_error"
    /\ \E e \in IF t = STARTUP THEN {"missing_result", "auth_failed"} ELSE {"auth_failed"} :
          last_error' = set_failed(e).last_error
    /\ thr' = [thr EXCEPT ![t] = IF t = STARTUP
                                   THEN [@ EXCEPT !.pc = "exiting", !.ret = "failed"]
                                   ELSE [@ EXCEPT !.pc = "idle", !.ret = "auth_failed"]]
    /\ UNCHANGED <<runnerVars, now, gv, ep, sideVars, auth_state, node_auth_token, alive,
                   try_start_calls, try_start_wins, auth_requests, vaultVars>>

\* response.ok with a result: node_auth_holder.set(token)
StartupAuthOk ==
    /\ alive /\ thr[STARTUP].pc = "awaiting"
    /\ \E life \in TokenLifetimes \cup {0} :
          node_auth_token' = node_auth_token_set([expires_at |-> now + life])
    /\ thr' = [thr EXCEPT ![STARTUP] = [@ EXCEPT !.pc = "set_authenticated"]]
    /\ UNCHANGED <<runnerVars, now, gv, ep, sideVars, auth_state, last_error, alive,
                   try_start_calls, try_start_wins, auth_requests, vaultVars>>

\* response missing its result, or response not ok: set_failed, the write
\* under the lock of `state`
StartupAuthFail ==
    /\ alive /\ thr[STARTUP].pc = "awaiting"
    /\ auth_state' = set_failed("auth_failed").state
    /\ thr' = [thr EXCEPT ![STARTUP] = [@ EXCEPT !.pc = "record_error"]]
    /\ UNCHANGED <<runnerVars, now, gv, ep, sideVars, last_error, node_auth_token, alive,
                   try_start_calls, try_start_wins, auth_requests, vaultVars>>

\* std::process::exit(1) after set_failed
StartupExit ==
    /\ alive /\ thr[STARTUP].pc = "exiting"
    /\ alive' = FALSE
    /\ thr' = [thr EXCEPT ![STARTUP] = [@ EXCEPT !.pc = "done"]]
    /\ UNCHANGED <<runnerVars, now, gv, ep, sideVars, auth_state, last_error, node_auth_token,
                   try_start_calls, try_start_wins, auth_requests, vaultVars>>

(* ---- handle_runner_task_stats (commands.rs) ---- *)
StatsReturn(t, r) ==
    thr' = [thr EXCEPT ![t] = [@ EXCEPT !.pc = "idle", !.ret = r]]

\* entry: state.get_node_auth_token()
StatsGetToken(t) ==
    /\ alive /\ thr[t].pc = "idle"
    /\ thr' = [thr EXCEPT ![t] =
                 [pc |-> IF token_get_valid(node_auth_token, now) # None
                         THEN "proceed" ELSE "check_state",
                  tried |-> FALSE, started |-> FALSE, issued |-> 0,
                  ret |-> "none"]]
    /\ UNCHANGED <<runnerVars, now, gv, ep, sideVars, auth_state, last_error, node_auth_token, alive,
                   try_start_calls, try_start_wins, auth_requests, vaultVars>>

\* variant of after_check_state: an expired token is replaced
after_check_state_reauth(s) ==
    IF s = "Failed" THEN [pc |-> "read_error", ret |-> "none"]
    ELSE IF s = "Authenticating" THEN [pc |-> "idle", ret |-> "in_progress"]
    ELSE IF s = "Authenticated" THEN [pc |-> "auth", ret |-> "none"]
    ELSE [pc |-> "has_credentials", ret |-> "none"]
\* what the handler does on the value of node_auth_state.get()
after_check_state(s) ==
    IF s = "Failed" THEN [pc |-> "read_error", ret |-> "none"]
    ELSE IF s = "Authenticating" THEN [pc |-> "idle", ret |-> "in_progress"]
    ELSE IF s = "Authenticated" THEN [pc |-> "idle", ret |-> "token_expired"]
    ELSE [pc |-> "has_credentials", ret |-> "none"]

\* variant of failed_return: the recorded error is read with the state
failed_return_recorded(stored) == "failed_terminal"
\* the Failed branch: get_last_error(), or the fixed text when it is None
failed_return(stored) == IF stored # None THEN "failed_terminal" ELSE "failed_fallback"

\* node_auth_state.get() and the early returns on it
StatsCheckState(t) ==
    /\ alive /\ thr[t].pc = "check_state"
    /\ thr' = [thr EXCEPT ![t] = [@ EXCEPT !.pc = after_check_state(auth_state).pc,
                                           !.ret = after_check_state(auth_state).ret]]
    /\ UNCHANGED <<runnerVars, now, gv, ep, sideVars, auth_state, last_error, node_auth_token, alive,
                   try_start_calls, try_start_wins, auth_requests, vaultVars>>

\* the Failed branch: node_auth_state.get_last_error() and the return
StatsReadError(t) ==
    /\ alive /\ thr[t].pc = "read_error"
    /\ StatsReturn(t, failed_return(last_error))
    /\ UNCHANGED <<runnerVars, now, gv, ep, sideVars, auth_state, last_error, node_auth_token, alive,
                   try_start_calls, try_start_wins, auth_requests, vaultVars>>

\* node_credentials::has_credentials()
StatsHasCredentials(t) ==
    /\ alive /\ thr[t].pc = "has_credentials"
    /\ \E has \in BOOLEAN :
          IF has THEN thr' = [thr EXCEPT ![t] = [@ EXCEPT !.pc = "try_start"]]
          ELSE StatsReturn(t, "not_configured")
    /\ UNCHANGED <<runnerVars, now, gv, ep, sideVars, auth_state, last_error, node_auth_token, alive,
                   try_start_calls, try_start_wins, auth_requests, vaultVars>>

StatsTryStart(t) ==
    /\ alive /\ thr[t].pc = "try_start"
    /\ TryStartBy(t, "auth", "idle", "in_progress")
    /\ UNCHANGED <<runnerVars, now, gv, ep, sideVars, last_error, node_auth_token, alive, auth_requests, vaultVars>>

\* node_credentials::authenticate_node(&engine_url) is called
StatsRequest(t) ==
    /\ alive /\ IssueAuthBy(t)
    /\ UNCHANGED <<runnerVars, now, gv, ep, sideVars, auth_state, last_error, node_auth_token, alive,
                   try_start_calls, try_start_wins, vaultVars>>

\* Ok(token): state.node_auth_token.set(token.clone())
StatsAuthOk(t) ==
    /\ alive /\ thr[t].pc = "awaiting"
    /\ \E life \in TokenLifetimes :
          node_auth_token' = node_auth_token_set([expires_at |-> now + life])
    /\ thr' = [thr EXCEPT ![t] = [@ EXCEPT !.pc = "set_authenticated"]]
    /\ UNCHANGED <<runnerVars, now, gv, ep, sideVars, auth_state, last_error, alive,
                   try_start_calls, try_start_wins, auth_requests, vaultVars>>

\* Err(e): set_failed, the write under the lock of `state`
StatsAuthFail(t) ==
    /\ alive /\ thr[t].pc = "awaiting"
    /\ auth_state' = set_failed("auth_failed").state
    /\ thr' = [thr EXCEPT ![t] = [@ EXCEPT !.pc = "record_error"]]
    /\ UNCHANGED <<runnerVars, now, gv, ep, sideVars, last_error, node_auth_token, alive,
                   try_start_calls, try_start_wins, auth_requests, vaultVars>>

\* the proxied GET and the response to the UI
StatsProceed(t) ==
    /\ alive /\ thr[t].pc = "proceed"
    /\ StatsReturn(t, "ok")
    /\ UNCHANGED <<runnerVars, now, gv, ep, sideVars, auth_state, last_error, node_auth_token, alive,
                   try_start_calls, try_start_wins, auth_requests, vaultVars>>

\* time passes
GuardTick ==
    /\ alive /\ now + 60 <= MaxNow
    /\ now' = now + 60
    /\ UNCHANGED <<runnerVars, gv, ep, sideVars, guardVars, vaultVars>>

(***************************************************************************)
(* Node session runner (node_runner.rs)                                    *)
(***************************************************************************)
\* bounds of the runner model
MaxBatch == 2
MaxErrors == 4
NumHeartbeats == 2
\* a long outage: consecutive poll failures from LongRunFrom up to MaxFailures
LongRunFrom == 60
MaxFailures == 70

\* `for attempt in 0..2` of the four remote calls
MAX_ATTEMPTS == 2
POLL_INTERVAL_SECS == 5
MAX_CONSECUTIVE_ERRORS == 3
MAX_BACKOFF_SECS == 60

Min(a, b) == IF a < b THEN a ELSE b

HbProcs == 1..NumHeartbeats
\* a heartbeat callback that is not running: never invoked for this task, or
\* returned Ok(()) or Err to the executor
HbRest == {"idle", "ok", "err"}
\* a callback that is not running: it returned, or it panicked
HbDone == HbRest \cup {"panicked"}
CallOps == {"poll", "claim", "complete", "fail"}

\* responses of the engine: the HTTP status code, and whether the body carries
\* one of the expiry markers
HttpResponses ==
    {[status |-> 200, marker |-> FALSE], [status |-> 401, marker |-> FALSE],
     [status |-> 500, marker |-> FALSE], [status |-> 500, marker |-> TRUE]}

\* the entry of call.hist for a request that got no response (send() failed)
NoResponse == [status |-> 0, marker |-> FALSE]

\* reqwest StatusCode::is_success
is_success(code) == code >= 200 /\ code < 300

\* NodeSessionRunner::is_token_expired_error; marker: the body contains
\* "Token expired", "token expired", "jwt expired" or "invalid token"
is_token_expired_error(code, marker) == code = 401 \/ marker

\* variant of borrow: only a value already marked seen counts
borrow_seen(rx) == rx.value /\ rx.seen = rx.version

\* *shutdown_rx.borrow()
borrow(rx) == rx.value

\* shutdown_rx.changed() is ready: an unseen version, or the sender is gone
changed_ready(rx) == rx.version # rx.seen \/ ~rx.sender

(* ---- u64 arithmetic of the backoff: four 16-bit limbs, lowest first ---- *)
LIMB == 65536
U64_BITS == 64

\* 1u64 << k, for 0 <= k < 64
u64_one_shl(k) == [i \in 1..4 |-> IF i = (k \div 16) + 1 THEN 2 ^ (k % 16) ELSE 0]

\* m * x on u64, m a small factor: the wrapped product, and whether it overflowed
u64_mul_small(m, x) ==
    LET c1 == m * x[1]
        c2 == m * x[2] + (c1 \div LIMB)
        c3 == m * x[3] + (c2 \div LIMB)
        c4 == m * x[4] + (c3 \div LIMB)
    IN [value |-> <<c1 % LIMB, c2 % LIMB, c3 % LIMB, c4 % LIMB>>,
        overflow |-> (c4 \div LIMB) > 0]

\* std::cmp::min(x, m) for a u64 x and a bound m below LIMB
u64_min_small(x, m) ==
    IF x[2] = 0 /\ x[3] = 0 /\ x[4] = 0 /\ x[1] < m THEN x[1] ELSE m

\* the backoff of the Err arm of the loop after n consecutive errors (n >= 1).
\* checks: the build has overflow checks (debug profile): a shift by 64 or more
\* and an overflowing product panic; without them the shift amount is masked
\* to 6 bits and the product wraps.
backoff(n, checks) ==
    IF n >= MAX_CONSECUTIVE_ERRORS
    THEN LET k == n - MAX_CONSECUTIVE_ERRORS
             shifted == u64_one_shl(k % U64_BITS)
             prod == u64_mul_small(POLL_INTERVAL_SECS, shifted)
         IN IF checks /\ (k >= U64_BITS \/ prod.overflow)
            THEN [panic |-> TRUE, secs |-> 0]
            ELSE [panic |-> FALSE,
                  secs |-> u64_min_small(prod.value, MAX_BACKOFF_SECS)]
    ELSE [panic |-> FALSE, secs |-> POLL_INTERVAL_SECS]

NoCall ==
    [op |-> "none", attempt |-> 0, phase |-> "none", requests |-> 0,
     clears |-> 0, refresh_ok |-> FALSE, auths |-> 0, first_auths |-> 0,
     hist |-> <<>>,
     result |-> "none", ntasks |-> 0, output |-> None, failure |-> None]

NewCall(o) == [NoCall EXCEPT !.op = o, !.phase = "get_session"]

NoTask ==
    [id |-> 0, claimed |-> FALSE, dispatched |-> FALSE, completes |-> 0,
     fails |-> 0, acked |-> FALSE, returned |-> FALSE,
     exec |-> "none", hb_err |-> FALSE, result |-> None]

\* no poll has returned since the last one started
NoWait == [after |-> "none", secs |-> 0, run |-> 0]

RunnerInit ==
    /\ session_holder \in {Some([expires_at |-> life]) :
                             life \in {l \in TokenLifetimes : l > EXPIRY_MARGIN_SECS}}
    /\ shutdown = [value |-> FALSE, version |-> 0, seen |-> 0, sender |-> TRUE]
    /\ rpc = "start"
    /\ call = NoCall
    /\ tasks = <<>>
    /\ task = NoTask
    /\ consecutive_errors = 0
    /\ backoff_secs = 0
    /\ status = [enabled |-> FALSE, state |-> "Stopped", last_error |-> FALSE,
                 stops |-> 0]
    /\ hb = [p \in HbProcs |-> "idle"]
    /\ waited = NoWait

\* authenticate_node calls in flight
AuthInFlight ==
    (IF rpc \in CallOps /\ call.phase \in {"get_session_auth", "headers_auth", "refresh_auth"}
     THEN 1 ELSE 0)
    + (IF rpc = "exec_session_auth" THEN 1 ELSE 0)
    + Cardinality({p \in HbProcs : hb[p] = "auth"})

\* callbacks of DesktopNodeRunnerCallbacks on RunnerState
on_start(st) == [st EXCEPT !.enabled = TRUE, !.state = "Running", !.last_error = FALSE]
on_poll(st) == [st EXCEPT !.state = "Running"]
on_error(st) == [st EXCEPT !.state = "Error", !.last_error = TRUE]
\* variant of on_stop: the state is left as it was
on_stop_keep(st) == [st EXCEPT !.stops = @ + 1]
on_stop(st) == [st EXCEPT !.state = "Stopped", !.stops = @ + 1]

\* the values of the consecutive error counter at which another poll may fail:
\* short runs, and the end of a long outage
ErrorRuns == (0..(MaxErrors - 1)) \cup (LongRunFrom..(MaxFailures - 1))

\* a poll may fail only while the consecutive error counter is below its bound
MayErr == call.op = "poll" => consecutive_errors \in ErrorRuns

CallReturn(c, res) == [c EXCEPT !.phase = "returned", !.result = res]

\* force_refresh_session returned Ok: `continue`, the next attempt starts or
\* the loop over the attempts is over ("... failed after retry")
NextAttempt(c) ==
    IF c.attempt + 1 < MAX_ATTEMPTS
    THEN [c EXCEPT !.phase = "get_session", !.attempt = @ + 1, !.refresh_ok = TRUE]
    ELSE CallReturn([c EXCEPT !.attempt = @ + 1, !.refresh_ok = TRUE], "Err")

\* variant of should_refresh: the recovery is not limited to the first attempt
should_refresh_always(attempt, resp) ==
    is_token_expired_error(resp.status, resp.marker)

\* the condition of the 401 recovery in the four remote calls
should_refresh(attempt, resp) ==
    attempt = 0 /\ is_token_expired_error(resp.status, resp.marker)

\* the response (or NoResponse) of a request enters the history of the call
Record(c, resp) ==
    [c EXCEPT !.hist = Append(@, resp),
              !.first_auths = IF c.hist = <<>> THEN c.auths ELSE @]

(* ---- one remote call: poll_tasks, claim_task, complete_task, fail_task ---- *)
\* let session = self.get_session().await?  (start of an attempt)
CallGetSession ==
    /\ rpc \in CallOps /\ call.phase = "get_session"
    /\ IF get_valid(session_holder, now) # None
       THEN /\ call' = [call EXCEPT !.phase = "headers"]
       ELSE /\ call' = [call EXCEPT !.phase = "get_session_auth", !.auths = @ + 1]
    /\ UNCHANGED <<now, gv, ep, sideVars, guardVars, session_holder, shutdown, rpc, tasks, task,
                   consecutive_errors, backoff_secs, status, hb, waited, vaultVars>>

\* self.security_headers().await? calls get_session again; then the request is sent
CallHeaders ==
    /\ rpc \in CallOps /\ call.phase = "headers"
    /\ IF get_valid(session_holder, now) # None
       THEN /\ call' = [call EXCEPT !.phase = "send", !.requests = @ + 1]
       ELSE /\ call' = [call EXCEPT !.phase = "headers_auth", !.auths = @ + 1]
    /\ UNCHANGED <<now, gv, ep, sideVars, guardVars, session_holder, shutdown, rpc, tasks, task,
                   consecutive_errors, backoff_secs, status, hb, waited, vaultVars>>

\* force_refresh_session after clear(): get_session on the cleared cache
CallRefresh ==
    /\ rpc \in CallOps /\ call.phase = "refresh"
    /\ IF get_valid(session_holder, now) # None
       THEN /\ call' = NextAttempt(call)
       ELSE /\ call' = [call EXCEPT !.phase = "refresh_auth", !.auths = @ + 1]
    /\ UNCHANGED <<now, gv, ep, sideVars, guardVars, session_holder, shutdown, rpc, tasks, task,
                   consecutive_errors, backoff_secs, status, hb, waited, vaultVars>>

\* where the call goes on when get_session returned Ok in phase ph
after_session(c, ph) ==
    IF ph = "get_session_auth" THEN [c EXCEPT !.phase = "headers"]
    ELSE IF ph = "headers_auth" THEN [c EXCEPT !.phase = "send", !.requests = @ + 1]
    ELSE NextAttempt(c)

\* authenticate_node returned Ok(token): session_holder.set(session)
CallAuthOk ==
    /\ rpc \in CallOps
    /\ call.phase \in {"get_session_auth", "headers_auth", "refresh_auth"}
    /\ \E life \in TokenLifetimes :
          session_holder' = Some([expires_at |-> now + life])
    /\ call' = after_session(call, call.phase)
    /\ UNCHANGED <<now, gv, ep, sideVars, guardVars, shutdown, rpc, tasks, task,
                   consecutive_errors, backoff_secs, status, hb, waited, vaultVars>>

\* authenticate_node returned Err: the `?` returns Err from the call
CallAuthErr ==
    /\ rpc \in CallOps
    /\ call.phase \in {"get_session_auth", "headers_auth", "refresh_auth"}
    /\ MayErr
    /\ call' = CallReturn(call, "Err")
    /\ UNCHANGED <<now, gv, ep, sideVars, guardVars, session_holder, shutdown, rpc, tasks, task,
                   consecutive_errors, backoff_secs, status, hb, waited, vaultVars>>

\* send() failed: transport error
CallTransportErr ==
    /\ rpc \in CallOps /\ call.phase = "send"
    /\ MayErr
    /\ call' = CallReturn(Record(call, NoResponse), "Err")
    /\ UNCHANGED <<now, gv, ep, sideVars, guardVars, session_holder, shutdown, rpc, tasks, task,
                   consecutive_errors, backoff_secs, status, hb, waited, vaultVars>>

\* a response arrived: success, 401 recovery on the first attempt, or error
CallResponse ==
    /\ rpc \in CallOps /\ call.phase = "send"
    /\ \E resp \in HttpResponses :
         LET c == Record(call, resp) IN
         IF is_success(resp.status)
         THEN /\ \E parses \in BOOLEAN, n \in 0..MaxBatch :
                   /\ call.op # "poll" => n = 0
                   /\ call.op \in {"complete", "fail"} => parses
                   /\ ~parses => (MayErr /\ n = 0)
                   /\ call' = CallReturn([c EXCEPT !.ntasks = n],
                                         IF parses THEN "Ok" ELSE "Err")
              /\ UNCHANGED session_holder
         ELSE IF should_refresh(call.attempt, resp)
         THEN /\ session_holder' = None
              /\ call' = [c EXCEPT !.phase = "refresh", !.clears = @ + 1]
         ELSE /\ MayErr
              /\ call' = CallReturn(c, "Err")
              /\ UNCHANGED session_holder
    /\ UNCHANGED <<now, gv, ep, sideVars, guardVars, shutdown, rpc, tasks, task,
                   consecutive_errors, backoff_secs, status, hb, waited, vaultVars>>

(* ---- run_node_session_runner_loop ---- *)
\* cb.on_start(&runner.runner_id)
RunnerStart ==
    /\ rpc = "start"
    /\ status' = on_start(status)
    /\ rpc' = "loop_top"
    /\ UNCHANGED <<now, gv, ep, sideVars, guardVars, session_holder, shutdown, call, tasks, task,
                   consecutive_errors, backoff_secs, hb, waited, vaultVars>>

\* top of the loop: the shutdown check, then runner.poll_tasks() is called
LoopTop ==
    /\ rpc = "loop_top"
    /\ IF borrow(shutdown)
       THEN /\ status' = on_stop(status)
            /\ rpc' = "done"
            /\ UNCHANGED <<call, waited>>
       ELSE /\ rpc' = "poll"
            /\ call' = NewCall("poll")
            /\ waited' = NoWait
            /\ UNCHANGED status
    /\ UNCHANGED <<now, gv, ep, sideVars, guardVars, session_holder, shutdown, tasks, task,
                   consecutive_errors, backoff_secs, hb, vaultVars>>

\* variant of errors_after_poll: a successful poll leaves the counter alone
errors_after_poll_keep(res, n) == IF res = "Ok" THEN n ELSE n + 1

\* consecutive_errors after a poll returned res: reset on Ok, counted on Err
errors_after_poll(res, n) == IF res = "Ok" THEN 0 ELSE n + 1

\* match runner.poll_tasks().await: the Ok arm up to the wait or the batch,
\* the Err arm up to the backoff sleep; a panic in the backoff arithmetic ends
\* the task of the loop before on_error is called
PollReturned ==
    /\ rpc = "poll" /\ call.phase = "returned"
    /\ IF call.result = "Ok"
       THEN /\ consecutive_errors' = errors_after_poll("Ok", consecutive_errors)
            /\ status' = on_poll(status)
            /\ tasks' = [i \in 1..call.ntasks |-> i]
            /\ rpc' = IF call.ntasks = 0 THEN "empty_wait" ELSE "batch"
            /\ waited' = [after |-> IF call.ntasks = 0 THEN "empty" ELSE "batch",
                          secs |-> 0, run |-> consecutive_errors]
            /\ UNCHANGED backoff_secs
       ELSE /\ consecutive_errors' = errors_after_poll("Err", consecutive_errors)
            /\ \E checks \in BOOLEAN :
                 LET b == backoff(consecutive_errors + 1, checks) IN
                 IF b.panic
                 THEN /\ rpc' = "panicked"
                      /\ UNCHANGED <<backoff_secs, status>>
                 ELSE /\ backoff_secs' = b.secs
                      /\ status' = on_error(status)
                      /\ rpc' = "backoff_wait"
            /\ waited' = [after |-> "error", secs |-> 0, run |-> consecutive_errors]
            /\ UNCHANGED tasks
    /\ call' = NoCall
    /\ UNCHANGED <<now, gv, ep, sideVars, guardVars, session_holder, shutdown, task, hb, vaultVars>>

\* select!: the sleep of POLL_INTERVAL_SECS elapsed first; continue
EmptyWaitSleep ==
    /\ rpc = "empty_wait"
    /\ rpc' = "loop_top"
    /\ waited' = [waited EXCEPT !.secs = @ + POLL_INTERVAL_SECS]
    /\ UNCHANGED <<now, gv, ep, sideVars, guardVars, session_holder, shutdown, call, tasks, task,
                   consecutive_errors, backoff_secs, status, hb, vaultVars>>

\* select!: shutdown_rx.changed() completed first
EmptyWaitChanged ==
    /\ rpc = "empty_wait"
    /\ changed_ready(shutdown)
    /\ shutdown' = [shutdown EXCEPT !.seen = shutdown.version]
    /\ IF borrow(shutdown)
       THEN /\ status' = on_stop(status)
            /\ rpc' = "done"
       ELSE /\ rpc' = "loop_top"
            /\ UNCHANGED status
    /\ UNCHANGED <<now, gv, ep, sideVars, guardVars, session_holder, call, tasks, task,
                   consecutive_errors, backoff_secs, hb, waited, vaultVars>>

\* variant of next_task: the batch is taken from its end
next_task_last(ts) == ts[Len(ts)]

\* the task the `for task in tasks` loop takes next: the first of those left
next_task(ts) == Head(ts)

\* for task in tasks: the shutdown check, then process_task starts with the
\* claim; after the last task the loop variable is gone
BatchNext ==
    /\ rpc = "batch"
    /\ IF tasks = <<>>
       THEN /\ rpc' = "sleep1"
            /\ task' = NoTask
            /\ UNCHANGED <<status, tasks, call>>
       ELSE IF borrow(shutdown)
       THEN /\ status' = on_stop(status)
            /\ rpc' = "done"
            /\ UNCHANGED <<task, tasks, call>>
       ELSE /\ task' = [NoTask EXCEPT !.id = next_task(tasks)]
            /\ tasks' = Tail(tasks)
            /\ rpc' = "claim"
            /\ call' = NewCall("claim")
            /\ UNCHANGED status
    /\ UNCHANGED <<now, gv, ep, sideVars, guardVars, session_holder, shutdown,
                   consecutive_errors, backoff_secs, hb, waited, vaultVars>>

(* ---- process_task ---- *)
\* what process_task does with the result of claim_task
after_claim(res) == IF res = "Ok" THEN "exec_session" ELSE "batch"

ClaimReturned ==
    /\ rpc = "claim" /\ call.phase = "returned"
    /\ rpc' = after_claim(call.result)
    /\ IF call.result = "Ok"
       THEN /\ task' = [task EXCEPT !.claimed = TRUE]
            /\ UNCHANGED status
       ELSE /\ status' = on_error(status)
            /\ task' = [task EXCEPT !.returned = TRUE]
    /\ call' = NoCall
    /\ UNCHANGED <<now, gv, ep, sideVars, guardVars, session_holder, shutdown, tasks,
                   consecutive_errors, backoff_secs, hb, waited, vaultVars>>

\* get_session for the engine context, then dispatch_task is called
ExecSession ==
    /\ rpc = "exec_session"
    /\ IF get_valid(session_holder, now) # None
       THEN /\ rpc' = "dispatch"
            /\ task' = [task EXCEPT !.dispatched = TRUE]
       ELSE /\ rpc' = "exec_session_auth"
            /\ UNCHANGED task
    /\ UNCHANGED <<now, gv, ep, sideVars, guardVars, session_holder, shutdown, call, tasks,
                   consecutive_errors, backoff_secs, status, hb, waited, vaultVars>>

ExecSessionAuthOk ==
    /\ rpc = "exec_session_auth"
    /\ \E life \in TokenLifetimes :
          session_holder' = Some([expires_at |-> now + life])
    /\ rpc' = "dispatch"
    /\ task' = [task EXCEPT !.dispatched = TRUE]
    /\ UNCHANGED <<now, gv, ep, sideVars, guardVars, shutdown, call, tasks,
                   consecutive_errors, backoff_secs, status, hb, waited, vaultVars>>

\* session error: fail_task(task_id, &e, "SESSION_ERROR", true) is called
ExecSessionAuthErr ==
    /\ rpc = "exec_session_auth"
    /\ rpc' = "fail"
    /\ call' = [NewCall("fail") EXCEPT
                  !.failure = Some([error |-> "session", code |-> "SESSION_ERROR",
                                    retryable |-> TRUE])]
    /\ task' = [task EXCEPT !.fails = @ + 1]
    /\ UNCHANGED <<now, gv, ep, sideVars, guardVars, session_holder, shutdown, tasks,
                   consecutive_errors, backoff_secs, status, hb, waited, vaultVars>>

\* variant of after_dispatch: an executor error is only logged
after_dispatch_drop(res) == IF res = "Ok" THEN "complete" ELSE "none"

\* match result of dispatch_task: complete_task on Ok, fail_task on Err
after_dispatch(res) == IF res = "Ok" THEN "complete" ELSE "fail"

\* serde_json Value::as_bool and Value::as_str on a member that may be missing
as_bool(member) ==
    IF member # None /\ member[1][1] = "bool" THEN Some(member[1][2] = "true") ELSE None
as_str(member) ==
    IF member # None /\ member[1][1] = "string" THEN Some(member[1][2]) ELSE None
unwrap_or(opt, default) == IF opt = None THEN default ELSE opt[1]

\* output envelopes of an executor: the members "success" and "failure_code",
\* each missing or holding a JSON value
Envelopes ==
    [success : {None, Some(JsonBool(TRUE)), Some(JsonBool(FALSE)),
                Some(JsonString("true"))},
     failure_code : {None, Some(JsonString("TIMEOUT")), Some(JsonNumber)}]
\* errors of an executor, each with the pair classify_error gives for it
ExecErrors == {"timeout", "bad input"}
classify_error(e) ==
    IF e = "timeout" THEN [code |-> "TIMEOUT", retryable |-> TRUE]
    ELSE [code |-> "INVALID_INPUT", retryable |-> FALSE]
\* what dispatch_task returns
ExecResults ==
    {[kind |-> "Ok", envelope |-> Some(env), error |-> None] : env \in Envelopes}
    \cup {[kind |-> "Err", envelope |-> None, error |-> Some(e)] : e \in ExecErrors}

\* variant of complete_output: any value but false is a success
complete_output_lenient(envelope) ==
    LET success == envelope.success # Some(JsonBool(FALSE)) IN
    [decision |-> IF success THEN "ACCEPT" ELSE "REJECT",
     reason |-> IF success THEN <<"Task executed successfully">>
                ELSE <<"Task failed: ",
                       unwrap_or(as_str(envelope.failure_code), "UNKNOWN")>>,
     patch |-> "envelope"]
\* the EngineCompleteOutput built from the envelope
complete_output(envelope) ==
    LET success == unwrap_or(as_bool(envelope.success), FALSE) IN
    [decision |-> IF success THEN "ACCEPT" ELSE "REJECT",
     reason |-> IF success THEN <<"Task executed successfully">>
                ELSE <<"Task failed: ",
                       unwrap_or(as_str(envelope.failure_code), "UNKNOWN")>>,
     patch |-> "envelope"]
\* the arguments of fail_task for an executor error
fail_args(e) ==
    [error |-> e, code |-> classify_error(e).code,
     retryable |-> classify_error(e).retryable]

\* the executor finished its work with a result: it invokes no further
\* heartbeat callback
ExecutorDone ==
    /\ rpc = "dispatch"
    /\ rpc' = "dispatch_end"
    /\ \E r \in ExecResults : task' = [task EXCEPT !.result = Some(r)]
    /\ UNCHANGED <<now, gv, ep, sideVars, guardVars, session_holder, shutdown, call, tasks,
                   consecutive_errors, backoff_secs, status, hb, waited, vaultVars>>

\* dispatch_task returned with the executor's result, once the heartbeat
\* callbacks it awaits have returned; heartbeat_fn is dropped
DispatchReturn ==
    /\ rpc = "dispatch_end"
    /\ \A p \in HbProcs : hb[p] \in HbDone
    /\ hb' = [p \in HbProcs |-> "idle"]
    /\ LET r == task.result[1]
           nxt == after_dispatch(r.kind) IN
         /\ rpc' = IF nxt \in CallOps THEN nxt ELSE "batch"
         /\ call' = IF nxt = "complete"
                    THEN [NewCall(nxt) EXCEPT
                            !.output = Some(complete_output(r.envelope[1]))]
                    ELSE IF nxt = "fail"
                    THEN [NewCall(nxt) EXCEPT !.failure = Some(fail_args(r.error[1]))]
                    ELSE NoCall
         /\ task' = [task EXCEPT
                       !.exec = r.kind, !.result = None,
                       !.completes = IF nxt = "complete" THEN @ + 1 ELSE @,
                       !.fails = IF nxt = "fail" THEN @ + 1 ELSE @,
                       !.returned = nxt \notin CallOps]
    /\ UNCHANGED <<now, gv, ep, sideVars, guardVars, session_holder, shutdown, tasks,
                   consecutive_errors, backoff_secs, status, waited, vaultVars>>

\* complete_task returned: on_error or on_complete, process_task returns
CompleteReturned ==
    /\ rpc = "complete" /\ call.phase = "returned"
    /\ status' = IF call.result = "Ok" THEN status ELSE on_error(status)
    /\ task' = [task EXCEPT !.acked = (call.result = "Ok"), !.returned = TRUE]
    /\ rpc' = "batch"
    /\ call' = NoCall
    /\ UNCHANGED <<now, gv, ep, sideVars, guardVars, session_holder, shutdown, tasks,
                   consecutive_errors, backoff_secs, hb, waited, vaultVars>>

\* fail_task returned (its result is only logged): on_error, process_task returns
FailReturned ==
    /\ rpc = "fail" /\ call.phase = "returned"
    /\ status' = on_error(status)
    /\ task' = [task EXCEPT !.acked = (call.result = "Ok"), !.returned = TRUE]
    /\ rpc' = "batch"
    /\ call' = NoCall
    /\ UNCHANGED <<now, gv, ep, sideVars, guardVars, session_holder, shutdown, tasks,
                   consecutive_errors, backoff_secs, hb, waited, vaultVars>>

\* tokio::time::sleep(backoff_secs) of the Err arm elapsed; the arm ends and
\* its local backoff_secs goes out of scope
BackoffWait ==
    /\ rpc = "backoff_wait"
    /\ rpc' = "sleep1"
    /\ backoff_secs' = 0
    /\ waited' = [waited EXCEPT !.secs = @ + backoff_secs]
    /\ UNCHANGED <<now, gv, ep, sideVars, guardVars, session_holder, shutdown, call, tasks, task,
                   consecutive_errors, status, hb, vaultVars>>

\* the sleep of one second at the end of the loop body elapsed
Sleep1 ==
    /\ rpc = "sleep1"
    /\ rpc' = "loop_top"
    /\ waited' = [waited EXCEPT !.secs = @ + 1]
    /\ UNCHANGED <<now, gv, ep, sideVars, guardVars, session_holder, shutdown, call, tasks, task,
                   consecutive_errors, backoff_secs, status, hb, vaultVars>>

(* ---- NodeSessionRunnerHeartbeat::send_heartbeat ---- *)
\* what the heartbeat POST can come to: send() fails, or a response arrives
HeartbeatOutcomes == HttpResponses \cup {NoResponse}
\* the body of a response that is not a success: at most 200 bytes or with a
\* character boundary at byte 200 ("plain"), or longer with byte 200 inside a
\* character of several bytes ("split")
HeartbeatBodies == {"plain", "split"}
\* variant of body_trunc: the body is cut at a character boundary
body_trunc_floor(body) == "Err"
\* body_trunc, `&body[..200]`: a panic off a character boundary
body_trunc(body) == IF body = "split" THEN "Panic" ELSE "Err"
\* the result of send_heartbeat for an outcome of the POST
heartbeat_result(r, body) ==
    IF r = NoResponse THEN "Err"
    ELSE IF is_success(r.status) THEN "Ok"
    ELSE body_trunc(body)
\* variant of session_after_heartbeat: a failed heartbeat clears the session
session_after_heartbeat_clear(holder, res) == IF res = "Ok" THEN holder ELSE None
\* the cached session when send_heartbeat returns: the error paths return
\* without touching session_holder
session_after_heartbeat(holder, res) == holder

\* the executor invokes the heartbeat callback: session_holder.get_valid()
HbInvoke(p) ==
    /\ rpc = "dispatch" /\ hb[p] \in HbDone
    /\ IF get_valid(session_holder, now) # None
       THEN /\ hb' = [hb EXCEPT ![p] = "send"]
       ELSE /\ hb' = [hb EXCEPT ![p] = "auth"]
    /\ UNCHANGED <<now, gv, ep, sideVars, guardVars, session_holder, shutdown, rpc, call, tasks,
                   task, consecutive_errors, backoff_secs, status, waited, vaultVars>>

HbAuthOk(p) ==
    /\ hb[p] = "auth"
    /\ \E life \in TokenLifetimes :
          session_holder' = Some([expires_at |-> now + life])
    /\ hb' = [hb EXCEPT ![p] = "send"]
    /\ UNCHANGED <<now, gv, ep, sideVars, guardVars, shutdown, rpc, call, tasks, task,
                   consecutive_errors, backoff_secs, status, waited, vaultVars>>

\* authenticate_node failed: Err("Session refresh failed: ...") to the executor
HbAuthErr(p) ==
    /\ hb[p] = "auth"
    /\ hb' = [hb EXCEPT ![p] = "err"]
    /\ session_holder' = session_after_heartbeat(session_holder, "Err")
    /\ task' = [task EXCEPT !.hb_err = TRUE]
    /\ UNCHANGED <<now, gv, ep, sideVars, guardVars, shutdown, rpc, call, tasks,
                   consecutive_errors, backoff_secs, status, waited, vaultVars>>

\* the heartbeat POST returned: a transport error or a status that is not a
\* success is Err to the executor, else Ok(()); the panic of body_trunc ends
\* the callback without a result
HbSendReturn(p) ==
    /\ hb[p] = "send"
    /\ \E r \in HeartbeatOutcomes, body \in HeartbeatBodies :
         LET res == heartbeat_result(r, body) IN
         /\ hb' = [hb EXCEPT ![p] = IF res = "Ok" THEN "ok"
                                    ELSE IF res = "Err" THEN "err" ELSE "panicked"]
         /\ session_holder' = session_after_heartbeat(session_holder, res)
         /\ task' = [task EXCEPT !.hb_err = @ \/ res = "Err"]
    /\ UNCHANGED <<now, gv, ep, sideVars, guardVars, shutdown, rpc, call, tasks,
                   consecutive_errors, backoff_secs, status, waited, vaultVars>>

(* ---- environment of the runner ---- *)
\* the holder of the watch Sender signals shutdown
SignalShutdown ==
    /\ shutdown.sender /\ ~shutdown.value
    /\ shutdown' = [shutdown EXCEPT !.value = TRUE, !.version = @ + 1]
    /\ UNCHANGED <<now, gv, ep, sideVars, guardVars, session_holder, rpc, call, tasks, task,
                   consecutive_errors, backoff_secs, status, hb, waited, vaultVars>>

\* the watch Sender is dropped
DropSender ==
    /\ shutdown.sender
    /\ shutdown' = [shutdown EXCEPT !.sender = FALSE]
    /\ UNCHANGED <<now, gv, ep, sideVars, guardVars, session_holder, rpc, call, tasks, task,
                   consecutive_errors, backoff_secs, status, hb, waited, vaultVars>>

RunnerTick ==
    /\ rpc \notin {"done", "panicked"} /\ now + 60 <= MaxNow
    /\ now' = now + 60
    /\ UNCHANGED <<gv, ep, sideVars, guardVars, runnerVars, vaultVars>>

(***************************************************************************)
(* Security epoch (security_epoch.rs)                                      *)
(***************************************************************************)
\* bound: the epochs named by the environment and the marker are 0..MaxEpochSeen
MaxEpochSeen == 2
\* successful polls of one runner loop in SpecStatus
MaxPolls == 3
\* bootstrap requests, and so runner loops, in SpecBootstrap
MaxLoops == 3

\* EKKA_SECURITY_EPOCH of the process: unset, decimal digits of a u32, or
\* other text
EnvValues == {[kind |-> "unset", n |-> 0], [kind |-> "text", n |-> 0]}
             \cup {[kind |-> "u32", n |-> n] : n \in 0..MaxEpochSeen}

\* std::env::var(..).ok().and_then(|s| s.parse().ok())
parse_env_epoch(env) == IF env.kind = "u32" THEN Some(env.n) ELSE None

\* a JSON number that is an unsigned integer, hi * 2^32 + lo
UInt(hi, lo) == [type |-> "uint", hi |-> hi, lo |-> lo]
\* the member epoch_seen of the marker: missing, a string, a negative or
\* fractional number, or an unsigned integer below 2^64
EpochSeenValues ==
    {[type |-> t, hi |-> 0, lo |-> 0] : t \in {"missing", "string", "negative", "float"}}
    \cup {UInt(hi, lo) : hi \in 0..1, lo \in 0..MaxEpochSeen}
\* .ekka-marker.json: no file, text that is not JSON, or a JSON object
NoMarker == [kind |-> "absent", epoch_seen |-> [type |-> "missing", hi |-> 0, lo |-> 0]]
Markers ==
    {NoMarker, [NoMarker EXCEPT !.kind = "corrupt"]}
    \cup {[kind |-> "json", epoch_seen |-> v] : v \in EpochSeenValues}

\* serde_json::Value::as_u64
as_u64(v) == IF v.type = "uint" THEN Some(v) ELSE None
\* variant of as_u32: a value that does not fit 32 bits is refused
as_u32_checked(x) == IF x.hi = 0 THEN Some(x.lo) ELSE None
\* `v as u32`: the low 32 bits
as_u32(x) == Some(x.lo)

\* variant of try_marker_epoch: the marker is not consulted
try_marker_epoch_none(marker) == None
\* try_marker_epoch
try_marker_epoch(marker) ==
    IF marker.kind # "json" THEN None
    ELSE IF as_u64(marker.epoch_seen) = None THEN None
    ELSE as_u32(as_u64(marker.epoch_seen)[1])

\* ENV_EPOCH_CACHE.get_or_init: the cell after the call
env_cache_after(cache, env) == IF cache = None THEN Some(parse_env_epoch(env)) ELSE cache

\* resolve_with_source, given what try_env_epoch returned
resolve_with_source(env_epoch, marker) ==
    IF env_epoch # None THEN [epoch |-> env_epoch[1], source |-> "Env"]
    ELSE IF try_marker_epoch(marker) # None
         THEN [epoch |-> try_marker_epoch(marker)[1], source |-> "Marker"]
         ELSE [epoch |-> 1, source |-> "Default"]

NoEpoch == [epoch |-> 0, source |-> "none"]
\* no call of resolve_with_source: the value of ep in the other specifications
EpIdle ==
    [env |-> [kind |-> "unset", n |-> 0], cache |-> None, marker |-> NoMarker,
     calls |-> 0, seen |-> NoMarker, out |-> NoEpoch,
     store |-> None, load |-> None]

\* a process starts with some environment on a home with some marker
EpochInit == ep \in {[EpIdle EXCEPT !.env = e, !.marker = m, !.seen = m] :
                       e \in EnvValues, m \in Markers}

\* resolve_with_source(home) is called
EpochResolve ==
    /\ ep.calls < 2
    /\ LET cache == env_cache_after(ep.cache, ep.env) IN
       ep' = [ep EXCEPT !.cache = cache, !.calls = @ + 1, !.seen = ep.marker,
                        !.out = resolve_with_source(cache[1], ep.marker)]
    /\ UNCHANGED <<now, gv, sideVars, guardVars, runnerVars, vaultVars>>

\* the marker file is rewritten, removed or damaged between two calls
EpochMarkerChange(m) ==
    /\ ep.calls = 1 /\ m # ep.marker /\ ep.seen = ep.marker
    /\ ep' = [ep EXCEPT !.marker = m]
    /\ UNCHANGED <<now, gv, sideVars, guardVars, runnerVars, vaultVars>>

EpochNext == EpochResolve \/ \E m \in Markers : EpochMarkerChange(m)

(***************************************************************************)
(* RunnerState (state.rs) and DesktopNodeRunnerCallbacks (node_runner.rs)  *)
(***************************************************************************)
\* the byte limit of sanitize_error
SANITIZE_LIMIT == 200
\* error texts handed to on_error: whether a line looks like a path, the
\* length in bytes once such lines are replaced and the lines joined, and
\* whether byte SANITIZE_LIMIT of that text is a character boundary (it is not
\* when a multi-byte character of a response body lies across it)
ErrorTexts ==
    [path : BOOLEAN, len : {40, SANITIZE_LIMIT, SANITIZE_LIMIT + 60},
     boundary : BOOLEAN]
\* variant of sanitize_error: the text is cut at the last character boundary
\* at or below the limit
sanitize_error_floor(error) ==
    IF error.len > SANITIZE_LIMIT
    THEN [panic |-> FALSE,
          text |-> Some([redacted |-> error.path, truncated |-> TRUE,
                         len |-> IF error.boundary THEN SANITIZE_LIMIT + 3
                                 ELSE SANITIZE_LIMIT + 2])]
    ELSE [panic |-> FALSE,
          text |-> Some([redacted |-> error.path, truncated |-> FALSE,
                         len |-> error.len])]
\* sanitize_error: path lines replaced, then &sanitized[..200] and "..." when
\* the text is longer than 200 bytes; the slice panics off a char boundary
sanitize_error(error) ==
    IF error.len > SANITIZE_LIMIT
    THEN IF error.boundary
         THEN [panic |-> FALSE,
               text |-> Some([redacted |-> error.path, truncated |-> TRUE,
                              len |-> SANITIZE_LIMIT + 3])]
         ELSE [panic |-> TRUE, text |-> None]
    ELSE [panic |-> FALSE,
          text |-> Some([redacted |-> error.path, truncated |-> FALSE,
                         len |-> error.len])]

\* RunnerStatus::default(), the fields the callbacks write
DefaultStatus == [enabled |-> FALSE, state |-> "Stopped", last_error |-> None]
\* RunnerState::get: a snapshot, or the default when the lock is poisoned
runner_state_get(r) == IF r.poisoned THEN DefaultStatus ELSE r.status
\* RunnerState::update: nothing happens when the lock is poisoned
runner_state_update(r, st) == IF r.poisoned THEN r.status ELSE st
record_poll(r) == runner_state_update(r, [r.status EXCEPT !.state = "Running"])
runner_state_start(r) ==
    runner_state_update(r, [r.status EXCEPT !.enabled = TRUE, !.state = "Running",
                                            !.last_error = None])
runner_state_stop(r) == runner_state_update(r, [r.status EXCEPT !.state = "Stopped"])
\* record_error when sanitize_error returns
record_error(r, error) ==
    runner_state_update(r, [r.status EXCEPT !.state = "Error",
                                            !.last_error = sanitize_error(error).text])

\* no runner loop was started: the value of rs in the other specifications
RsIdle ==
    [status |-> DefaultStatus, poisoned |-> FALSE, loop |-> "none",
     last |-> "none", error |-> None, polls |-> 0]
\* what a panic inside the spawned loop does: the task ends (unwinding) or
\* the process ends (panic = "abort")
PanicOutcomes == {"panicked", "aborted"}

\* start_node_runner spawned the loop: cb.on_start
StatusOnStart ==
    /\ rs.loop = "none"
    /\ rs' = [rs EXCEPT !.status = runner_state_start(rs), !.loop = "running",
                        !.last = "start"]
    /\ UNCHANGED <<now, gv, ep, bs, cw, guardVars, runnerVars, vaultVars>>
\* a poll succeeded: cb.on_poll
StatusOnPoll ==
    /\ rs.loop = "running" /\ rs.polls < MaxPolls
    /\ rs' = [rs EXCEPT !.status = record_poll(rs), !.last = "poll",
                        !.polls = @ + 1]
    /\ UNCHANGED <<now, gv, ep, bs, cw, guardVars, runnerVars, vaultVars>>
\* a poll, a claim, a completion or an executor failed: cb.on_error(&e). A
\* panic of sanitize_error happens inside the closure of update, after
\* s.state was assigned and with the write guard held: the lock is poisoned
StatusOnError(error) ==
    /\ rs.loop = "running"
    /\ IF sanitize_error(error).panic /\ ~rs.poisoned
       THEN \E o \in PanicOutcomes :
               rs' = [rs EXCEPT !.status = [rs.status EXCEPT !.state = "Error"],
                                !.poisoned = TRUE, !.loop = o,
                                !.last = "error", !.error = Some(error)]
       ELSE rs' = [rs EXCEPT !.status = record_error(rs, error),
                             !.last = "error", !.error = Some(error)]
    /\ UNCHANGED <<now, gv, ep, bs, cw, guardVars, runnerVars, vaultVars>>
\* the shutdown signal was seen: cb.on_stop, the loop returns
StatusOnStop ==
    /\ rs.loop = "running"
    /\ rs' = [rs EXCEPT !.status = runner_state_stop(rs), !.loop = "stopped",
                        !.last = "stop"]
    /\ UNCHANGED <<now, gv, ep, bs, cw, guardVars, runnerVars, vaultVars>>

StatusNext ==
    \/ StatusOnStart \/ StatusOnPoll \/ StatusOnStop
    \/ \E e \in ErrorTexts : StatusOnError(e)

(* ---- handle_bootstrap_node_session, start_node_runner ---- *)
LoopIds == 1..MaxLoops
\* no bootstrap request was made: the value of bs in the other specifications
BsIdle ==
    [engine_available |-> FALSE, token |-> FALSE, session_set |-> FALSE,
     status |-> DefaultStatus, poisoned |-> FALSE,
     loops |-> [l \in LoopIds |-> "none"], requests |-> 0,
     response |-> "none", last |-> <<0, "none">>]
\* the process after startup: the local engine available or not, the node
\* auth token stored by the startup authentication or not
BootstrapInit ==
    bs \in {[BsIdle EXCEPT !.engine_available = e, !.token = t] :
              e \in BOOLEAN, t \in BOOLEAN}
\* error texts of at most SANITIZE_LIMIT bytes, with and without a path line
ShortErrors == {e \in ErrorTexts : e.len <= SANITIZE_LIMIT /\ e.boundary}
\* the loops spawned so far
Spawned(b) == {l \in LoopIds : b.loops[l] # "none"}
\* the loops between on_start and the return of run_node_session_runner_loop
RunningLoops(b) == {l \in LoopIds : b.loops[l] = "running"}

\* variant of spawn_runner: no loop is spawned while an earlier one exists
spawn_runner_single(b, start_runner) ==
    IF start_runner /\ Spawned(b) = {}
    THEN [b.loops EXCEPT ![1] = "spawned"]
    ELSE b.loops
\* `if start_runner { tauri::async_runtime::spawn(start_node_runner(...)) }`
spawn_runner(b, start_runner) ==
    IF start_runner
    THEN [b.loops EXCEPT ![Cardinality(Spawned(b)) + 1] = "spawned"]
    ELSE b.loops

\* nodeSession bootstrap request with payload.startRunner
HandleBootstrapNodeSession(start_runner) ==
    /\ bs.requests < MaxLoops
    /\ IF ~bs.engine_available
       THEN bs' = [bs EXCEPT !.requests = @ + 1, !.response = "ENGINE_UNAVAILABLE"]
       ELSE IF ~bs.token
       THEN bs' = [bs EXCEPT !.requests = @ + 1, !.response = "NODE_NOT_AUTHENTICATED"]
       ELSE bs' = [bs EXCEPT !.requests = @ + 1, !.response = "ok",
                             !.session_set = TRUE,
                             !.loops = spawn_runner(bs, start_runner)]
    /\ UNCHANGED <<now, gv, ep, rs, cw, guardVars, runnerVars, vaultVars>>
\* the spawned task runs: run_node_session_runner_loop calls cb.on_start
BootstrapLoopStart(l) ==
    /\ bs.loops[l] = "spawned"
    /\ bs' = [bs EXCEPT !.loops[l] = "running", !.status = runner_state_start(bs),
                        !.last = <<l, "start">>]
    /\ UNCHANGED <<now, gv, ep, rs, cw, guardVars, runnerVars, vaultVars>>
\* a poll of loop l succeeded: cb.on_poll
BootstrapLoopPoll(l) ==
    /\ bs.loops[l] = "running"
    /\ bs' = [bs EXCEPT !.status = record_poll(bs), !.last = <<l, "poll">>]
    /\ UNCHANGED <<now, gv, ep, rs, cw, guardVars, runnerVars, vaultVars>>
\* loop l reports a failure: cb.on_error
BootstrapLoopError(l) ==
    /\ bs.loops[l] = "running"
    /\ \E e \in ShortErrors :
          bs' = [bs EXCEPT !.status = record_error(bs, e), !.last = <<l, "error">>]
    /\ UNCHANGED <<now, gv, ep, rs, cw, guardVars, runnerVars, vaultVars>>

BootstrapNext ==
    \/ \E start_runner \in BOOLEAN : HandleBootstrapNodeSession(start_runner)
    \/ \E l \in LoopIds :
         BootstrapLoopStart(l) \/ BootstrapLoopPoll(l) \/ BootstrapLoopError(l)


(***************************************************************************)
(* Node vault (node_vault_store.rs, node_vault_crypto.rs, device_secret.rs, *)
(* node_credentials.rs of ekka-desktop-core)                               *)
(***************************************************************************)
\* bounds of the vault model
NumChunks == 2
MaxEpoch == 2
NumSecrets == 2

\* EncryptedEnvelope::CURRENT_VERSION
CURRENT_VERSION == 1
SECRET_ID_NODE_CREDENTIALS == "node_credentials"

\* the secret ids in use: node_credentials.rs is the only caller of the store
SecretIds == {SECRET_ID_NODE_CREDENTIALS}
Epochs == 1..MaxEpoch

\* the nodeId strings of a nodeCredentials.set payload: a UUID, or other text
NodeIdInputs == {<<"uuid", 1>>, <<"text", 1>>}

\* Uuid::to_string and Uuid::parse_str
uuid_to_string(u) == <<"uuid", u>>
uuid_parse_str(str) ==
    IF str[1] = "uuid" THEN [ok |-> TRUE, id |-> str[2]] ELSE [ok |-> FALSE, id |-> 0]

\* validate_node_id
validate_node_id(node_id_str) == uuid_parse_str(node_id_str)

\* the nodeSecret strings of a payload: k names the text, chars counts its
\* characters and bytes its UTF-8 bytes (str::len)
EmptySecret == [k |-> 0, chars |-> 0, bytes |-> 0]
ShortSecret == [k |-> 0, chars |-> 15, bytes |-> 15]
WideSecret == [k |-> 0, chars |-> 8, bytes |-> 16]
NodeSecretInputs ==
    {[k |-> k, chars |-> 15 + k, bytes |-> 15 + k] : k \in 1..NumSecrets}
    \cup {EmptySecret, ShortSecret, WideSecret}

\* variant of validate_node_secret: the length is counted in characters
validate_node_secret_chars(node_secret) ==
    IF node_secret.bytes = 0 THEN FALSE
    ELSE IF node_secret.chars < 16 THEN FALSE
    ELSE TRUE
\* validate_node_secret: is_empty(), then len() < 16; len() is the byte length
validate_node_secret(node_secret) ==
    IF node_secret.bytes = 0 THEN FALSE
    ELSE IF node_secret.bytes < 16 THEN FALSE
    ELSE TRUE

\* the credentials store_credentials can be handed: (node_id, node_secret)
Credentials ==
    {[node_id |-> 1, node_secret |-> s] :
        s \in {x \in NodeSecretInputs : validate_node_secret(x)}}

\* serde_json::to_vec(&NodeCredentials) and serde_json::from_slice
creds_to_json(c) ==
    <<"json", [node_id |-> uuid_to_string(c.node_id), node_secret |-> c.node_secret]>>
creds_from_json(bytes) ==
    IF bytes[1] = "json" THEN [ok |-> TRUE, creds |-> bytes[2]]
    ELSE [ok |-> FALSE, creds |-> bytes[2]]

Plaintexts == {creds_to_json(c) : c \in Credentials}

\* the epoch store_credentials and load_credentials resolve in this process:
\* no EKKA_SECURITY_EPOCH, no epoch_seen in the marker
resolve_security_epoch == 1

\* secret_path, and final_path.with_extension("enc.tmp")
secret_path(id) == <<id, "enc">>
\* variant of temp_path: the envelope is written to the destination itself
temp_path_final(id) == <<id, "enc">>
temp_path(id) == <<id, "enc.tmp">>
Paths == {secret_path(id) : id \in SecretIds} \cup {<<id, "enc.tmp">> : id \in SecretIds}

(* ---- device_secret.rs ---- *)
\* the device secret file holding the first n chunks of the 32 bytes of s
SecretFile(s, n) == Some([secret |-> s, n |-> n])

\* rand::thread_rng().fill_bytes: 32 bytes equal to no secret seen before
fresh_secret(fs, dev) ==
    LET used == {0} \cup (IF dev = None THEN {} ELSE {dev[1].secret})
                    \cup {fs[p][1].env.data_b64[2].key[1] : p \in {q \in Paths : fs[q] # None}}
    IN 1 + CHOOSE m \in used : \A x \in used : x <= m

\* variant of load_or_create_device_secret: a new secret on every call
load_or_create_device_secret_rotate(dev, fresh) ==
    [ok |-> TRUE, secret |-> fresh, file |-> SecretFile(fresh, NumChunks)]
\* load_or_create_device_secret run to its end: the result and the file left.
\* An existing file is opened and read with read_exact; an absent one is
\* created with fresh random bytes
load_or_create_device_secret(dev, fresh) ==
    IF dev # None
    THEN IF dev[1].n = NumChunks
         THEN [ok |-> TRUE, secret |-> dev[1].secret, file |-> dev]
         ELSE [ok |-> FALSE, secret |-> 0, file |-> dev]
    ELSE [ok |-> TRUE, secret |-> fresh, file |-> SecretFile(fresh, NumChunks)]

(* ---- node_vault_crypto.rs ---- *)
\* variant of derive_node_vault_key: the epoch does not enter the key
derive_node_vault_key_any_epoch(secret, epoch) == <<secret, 0>>
\* derive_node_vault_key: derive_key(device secret, context, epoch, purpose)
derive_node_vault_key(secret, epoch) == <<secret, epoch>>

\* encrypt_node_value: AES-256-GCM under the key
encrypt_node_value(key, plaintext) == [key |-> key, pt |-> plaintext]

\* variant of decrypt_node_value: the plaintext is never given back
decrypt_node_value_reject(key, ciphertext) == [ok |-> FALSE, pt |-> None]
\* decrypt_node_value: the authentication tag matches under the same key only
decrypt_node_value(key, ciphertext) ==
    IF ciphertext.key = key THEN [ok |-> TRUE, pt |-> Some(ciphertext.pt)]
    ELSE [ok |-> FALSE, pt |-> None]

(* ---- node_vault_store.rs ---- *)
\* BASE64.encode / BASE64.decode: text that is not base64 does not decode
b64_encode(bytes) == <<"b64", bytes>>
b64_decode(str) ==
    IF str[1] = "b64" THEN [ok |-> TRUE, bytes |-> Some(str[2])]
    ELSE [ok |-> FALSE, bytes |-> None]

\* EncryptedEnvelope::new
envelope_new(encrypted) == [v |-> CURRENT_VERSION, data_b64 |-> b64_encode(encrypted)]
\* variant of EncryptedEnvelope::decode: the version is not looked at
envelope_decode_any_version(env) == b64_decode(env.data_b64)
\* EncryptedEnvelope::decode
envelope_decode(env) ==
    IF env.v # CURRENT_VERSION THEN [ok |-> FALSE, bytes |-> None]
    ELSE b64_decode(env.data_b64)

\* a file holding the first n chunks of the JSON text of an envelope
FileOf(env, n) == Some([env |-> env, n |-> n])
\* serde_json::from_str::<EncryptedEnvelope>: the text is whole and v is a u8
envelope_from_str(file) ==
    IF file.n = NumChunks /\ file.env.v \in 0..255
    THEN [ok |-> TRUE, env |-> Some(file.env)]
    ELSE [ok |-> FALSE, env |-> None]

\* results of the vault operations
ResNone == [kind |-> "none", value |-> None]
ResOk == [kind |-> "ok", value |-> None]
ResErr == [kind |-> "err", value |-> None]
ResAbsent == [kind |-> "absent", value |-> None]
ResSome(pt) == [kind |-> "some", value |-> Some(pt)]

\* read_node_secret reached derive_node_vault_key: the file exists, its JSON
\* parses and the envelope decodes
read_derives_key(fs, id) ==
    LET file == fs[secret_path(id)] IN
    /\ file # None
    /\ envelope_from_str(file[1]).ok
    /\ envelope_decode(envelope_from_str(file[1]).env[1]).ok

\* the device secret file after read_node_secret
device_after_read(fs, dev, id) ==
    IF read_derives_key(fs, id)
    THEN load_or_create_device_secret(dev, fresh_secret(fs, dev)).file
    ELSE dev

\* read_node_secret: Ok(None), Ok(Some(plaintext)) or Err
read_node_secret(fs, dev, epoch, id) ==
    LET file == fs[secret_path(id)] IN
    IF file = None THEN ResAbsent
    ELSE IF ~envelope_from_str(file[1]).ok THEN ResErr
    ELSE LET dec == envelope_decode(envelope_from_str(file[1]).env[1]) IN
         IF ~dec.ok THEN ResErr
         ELSE LET sec == load_or_create_device_secret(dev, fresh_secret(fs, dev)) IN
              IF ~sec.ok THEN ResErr
              ELSE LET out == decrypt_node_value(
                                 derive_node_vault_key(sec.secret, epoch), dec.bytes[1])
                   IN IF out.ok THEN ResSome(out.pt[1]) ELSE ResErr

(* ---- node_credentials.rs ---- *)
\* has_node_secret / has_credentials
has_credentials(fs) == fs[secret_path(SECRET_ID_NODE_CREDENTIALS)] # None

\* variant of load_credentials: every failed read is NotConfigured
load_credentials_not_configured(fs, dev) ==
    LET r == read_node_secret(fs, dev, resolve_security_epoch,
                              SECRET_ID_NODE_CREDENTIALS)
    IN IF r.kind = "some" /\ creds_from_json(r.value[1]).ok
            /\ uuid_parse_str(creds_from_json(r.value[1]).creds.node_id).ok
       THEN [kind |-> "ok",
             value |-> Some([node_id |->
                               uuid_parse_str(creds_from_json(r.value[1]).creds.node_id).id,
                             node_secret |-> creds_from_json(r.value[1]).creds.node_secret])]
       ELSE [kind |-> "NotConfigured", value |-> None]
\* load_credentials: Ok((node_id, node_secret)), NotConfigured, VaultError or
\* InvalidNodeId
load_credentials(fs, dev) ==
    LET r == read_node_secret(fs, dev, resolve_security_epoch,
                              SECRET_ID_NODE_CREDENTIALS)
    IN IF r.kind = "absent" THEN [kind |-> "NotConfigured", value |-> None]
       ELSE IF r.kind # "some" THEN [kind |-> "VaultError", value |-> None]
       ELSE LET json == creds_from_json(r.value[1]) IN
            IF ~json.ok THEN [kind |-> "VaultError", value |-> None]
            ELSE LET uuid == uuid_parse_str(json.creds.node_id) IN
                 IF ~uuid.ok THEN [kind |-> "InvalidNodeId", value |-> None]
                 ELSE [kind |-> "ok",
                       value |-> Some([node_id |-> uuid.id,
                                       node_secret |-> json.creds.node_secret])]

(* ---- authenticate_node and its callers ---- *)
SecretErrorCodes == {"invalid_secret", "secret_revoked", "invalid_credentials"}


\* the body of a response: empty, text that is not JSON, a JSON scalar, a JSON
\* object (value: its member "error", if any) or a JSON array (value: its only
\* element, if any)
NoBody == [form |-> "empty", value |-> None]
ErrorBody(c) == [form |-> "object", value |-> Some(JsonString(c))]
AuthBodies ==
    {NoBody, [form |-> "text", value |-> None], [form |-> "scalar", value |-> None],
     [form |-> "object", value |-> None], [form |-> "object", value |-> Some(JsonNull)],
     [form |-> "object", value |-> Some(JsonNumber)],
     [form |-> "array", value |-> None]}
    \cup {ErrorBody(c) : c \in SecretErrorCodes \cup {"rate_limited", "INVALID_SECRET"}}
    \cup {[form |-> "array", value |-> Some(JsonString(c))] :
            c \in {"invalid_secret", "rate_limited"}}
AuthResponses ==
    {[kind |-> "transport", status |-> 0, body |-> NoBody],
     [kind |-> "ok", status |-> 200, body |-> NoBody],
     [kind |-> "unparsable", status |-> 200, body |-> NoBody]}
    \cup {[kind |-> "http", status |-> st, body |-> b] :
            st \in {401, 403, 500}, b \in AuthBodies}
NoAuthResponse == [kind |-> "none", status |-> 0, body |-> NoBody]

\* variant of parse_auth_error: only a JSON object is read
parse_auth_error_object(body) ==
    IF body.form # "object" THEN [ok |-> FALSE, error |-> None]
    ELSE IF body.value = None \/ body.value = Some(JsonNull)
         THEN [ok |-> TRUE, error |-> None]
         ELSE IF body.value[1][1] = "string"
              THEN [ok |-> TRUE, error |-> Some(body.value[1][2])]
              ELSE [ok |-> FALSE, error |-> None]
\* serde_json::from_str::<AuthErrorResponse>: the derived Deserialize of a
\* struct reads a JSON object by its member names and a JSON array by position;
\* error: Option<String> takes null or a missing member as None
parse_auth_error(body) ==
    IF body.form = "object"
    THEN IF body.value = None \/ body.value = Some(JsonNull)
         THEN [ok |-> TRUE, error |-> None]
         ELSE IF body.value[1][1] = "string"
              THEN [ok |-> TRUE, error |-> Some(body.value[1][2])]
              ELSE [ok |-> FALSE, error |-> None]
    ELSE IF body.form = "array"
    THEN IF body.value = None THEN [ok |-> FALSE, error |-> None]
         ELSE IF body.value = Some(JsonNull) THEN [ok |-> TRUE, error |-> None]
         ELSE IF body.value[1][1] = "string"
              THEN [ok |-> TRUE, error |-> Some(body.value[1][2])]
              ELSE [ok |-> FALSE, error |-> None]
    ELSE [ok |-> FALSE, error |-> None]

\* is_secret_error(status, body)
is_secret_error(code, body) ==
    /\ code = 401 \/ code = 403
    /\ parse_auth_error(body).ok
    /\ parse_auth_error(body).error # None
    /\ parse_auth_error(body).error[1] \in SecretErrorCodes

\* the error code of handle_auth_authenticate for a failed authenticate_node
auth_error_code(resp) ==
    IF resp.kind = "http"
    THEN IF is_secret_error(resp.status, resp.body)
         THEN "NODE_SECRET_INVALID" ELSE "NODE_AUTH_FAILED"
    ELSE "NODE_AUTH_ERROR"

\* variant of vault_after_auth: any failure deletes the stored credentials
vault_after_auth_clear(code, fs) ==
    IF code = "ok" THEN fs
    ELSE [fs EXCEPT ![secret_path(SECRET_ID_NODE_CREDENTIALS)] = None]
\* the vault files after handle_auth_authenticate and the auth thread of main
\* handled the outcome: neither branch writes or deletes a file
vault_after_auth(code, fs) == fs

(* ---- the vault operations, step by step ---- *)
\* modes of a directory: absent, created with the mode the umask leaves
\* (create_dir_all), or set to 0o700
DirModes == {"absent", "umask", "0700"}

NoOp ==
    [op |-> "none", id |-> SECRET_ID_NODE_CREDENTIALS, epoch |-> 1, arg |-> None,
     pt |-> None, dev |-> None, env |-> None, pre |-> None, pc |-> "idle",
     result |-> ResNone, resp |-> NoAuthResponse, derive |-> FALSE]

VaultInit ==
    /\ files = [p \in Paths |-> None]
    /\ device_secret = None
    /\ dirs = [node |-> "absent", values |-> "absent"]
    /\ vop = NoOp
    /\ last_write = [id \in SecretIds |-> None]
    /\ first_secret = None

\* no vault operation is running
VaultIdle == vop.pc \in {"idle", "returned", "failed", "crashed"}
WriteSteps ==
    {"dirs", "chmod_node", "chmod_values", "secret", "secret_write", "secret_chmod",
     "prepare", "create", "write", "sync", "chmod", "rename"}

\* history: the secret of the first load_or_create_device_secret that returned Ok
note_secret(first, sec) == IF sec.ok /\ first = None THEN Some(sec.secret) ELSE first

\* write_node_secret is called
VaultWriteCall(id, e, pt) ==
    /\ VaultIdle
    /\ vop' = [NoOp EXCEPT !.op = "write", !.id = id, !.epoch = e, !.pt = Some(pt),
                           !.pre = files[secret_path(id)], !.pc = "dirs"]
    /\ last_write' = [last_write EXCEPT ![id] = None]
    /\ UNCHANGED <<now, gv, ep, sideVars, guardVars, runnerVars, files, device_secret, dirs,
                   first_secret>>

\* handle_node_credentials_set / handle_credentials_set: validate_node_id,
\* validate_node_secret, then store_credentials under the epoch of the process
CredentialsSet(node_id_str, node_secret, e) ==
    LET uuid == validate_node_id(node_id_str) IN
    IF ~uuid.ok \/ ~validate_node_secret(node_secret)
    THEN /\ VaultIdle
         /\ vop' = [NoOp EXCEPT
                      !.op = "set", !.pc = "returned",
                      !.arg = Some([node_id |-> node_id_str, node_secret |-> node_secret]),
                      !.result = [kind |-> IF ~uuid.ok THEN "INVALID_NODE_ID"
                                           ELSE "INVALID_NODE_SECRET",
                                  value |-> None]]
         /\ UNCHANGED <<now, gv, ep, sideVars, guardVars, runnerVars, files, device_secret, dirs,
                        last_write, first_secret>>
    ELSE VaultWriteCall(SECRET_ID_NODE_CREDENTIALS, e,
                        creds_to_json([node_id |-> uuid.id, node_secret |-> node_secret]))

\* ensure_dirs, values_dir.exists(): nothing to do
VaultDirsExist ==
    /\ vop.op = "write" /\ vop.pc = "dirs"
    /\ dirs.values # "absent"
    /\ vop' = [vop EXCEPT !.pc = "secret"]
    /\ UNCHANGED <<now, gv, ep, sideVars, guardVars, runnerVars, files, device_secret, dirs,
                   last_write, first_secret>>

\* ensure_dirs, fs::create_dir_all(&values_dir): the missing directories are
\* created, an existing one is left as it is
VaultCreateDirAll ==
    /\ vop.op = "write" /\ vop.pc = "dirs"
    /\ dirs.values = "absent"
    /\ dirs' = [node |-> IF dirs.node = "absent" THEN "umask" ELSE dirs.node,
                values |-> "umask"]
    /\ vop' = [vop EXCEPT !.pc = "chmod_node"]
    /\ UNCHANGED <<now, gv, ep, sideVars, guardVars, runnerVars, files, device_secret, last_write,
                   first_secret>>

\* ensure_dirs, fs::set_permissions(&node_vault_dir(home), 0o700)
VaultChmodNode ==
    /\ vop.op = "write" /\ vop.pc = "chmod_node"
    /\ dirs' = [dirs EXCEPT !.node = "0700"]
    /\ vop' = [vop EXCEPT !.pc = "chmod_values"]
    /\ UNCHANGED <<now, gv, ep, sideVars, guardVars, runnerVars, files, device_secret, last_write,
                   first_secret>>

\* ensure_dirs, fs::set_permissions(&values_dir, 0o700)
VaultChmodValues ==
    /\ vop.op = "write" /\ vop.pc = "chmod_values"
    /\ dirs' = [dirs EXCEPT !.values = "0700"]
    /\ vop' = [vop EXCEPT !.pc = "secret"]
    /\ UNCHANGED <<now, gv, ep, sideVars, guardVars, runnerVars, files, device_secret, last_write,
                   first_secret>>

\* load_or_create_device_secret, path.exists(): File::open, read_exact
VaultSecretLoad ==
    /\ vop.op = "write" /\ vop.pc = "secret"
    /\ device_secret # None
    /\ LET sec == load_or_create_device_secret(device_secret,
                                               fresh_secret(files, device_secret))
       IN /\ vop' = IF sec.ok
                    THEN [vop EXCEPT !.dev = Some(sec.secret), !.pc = "prepare",
                                     !.derive = TRUE]
                    ELSE [vop EXCEPT !.pc = "failed", !.result = ResErr,
                                     !.derive = TRUE]
          /\ device_secret' = sec.file
          /\ first_secret' = note_secret(first_secret, sec)
    /\ UNCHANGED <<now, gv, ep, sideVars, guardVars, runnerVars, files, dirs, last_write>>

\* load_or_create_device_secret, no file: fill_bytes, fs::File::create(&path)
VaultSecretCreate ==
    /\ vop.op = "write" /\ vop.pc = "secret"
    /\ device_secret = None
    /\ device_secret' = SecretFile(fresh_secret(files, device_secret), 0)
    /\ vop' = [vop EXCEPT !.pc = "secret_write", !.derive = TRUE]
    /\ UNCHANGED <<now, gv, ep, sideVars, guardVars, runnerVars, files, dirs, last_write,
                   first_secret>>

\* load_or_create_device_secret, file.write_all(&secret): one more chunk
VaultSecretChunk ==
    /\ vop.op = "write" /\ vop.pc = "secret_write"
    /\ LET f == device_secret[1] IN
       /\ f.n < NumChunks
       /\ device_secret' = SecretFile(f.secret, f.n + 1)
       /\ vop' = [vop EXCEPT
                    !.pc = IF f.n + 1 = NumChunks THEN "secret_chmod" ELSE "secret_write"]
    /\ UNCHANGED <<now, gv, ep, sideVars, guardVars, runnerVars, files, dirs, last_write,
                   first_secret>>

\* load_or_create_device_secret, fs::set_permissions(&path, 0o600), Ok(secret)
VaultSecretChmod ==
    /\ vop.op = "write" /\ vop.pc = "secret_chmod"
    /\ vop' = [vop EXCEPT !.dev = Some(device_secret[1].secret), !.pc = "prepare"]
    /\ first_secret' =
          note_secret(first_secret, [ok |-> TRUE, secret |-> device_secret[1].secret])
    /\ UNCHANGED <<now, gv, ep, sideVars, guardVars, runnerVars, files, device_secret, dirs,
                   last_write>>

\* derive_node_vault_key, encrypt_node_value, EncryptedEnvelope::new,
\* to_string_pretty
VaultWritePrepare ==
    /\ vop.op = "write" /\ vop.pc = "prepare"
    /\ LET key == derive_node_vault_key(vop.dev[1], vop.epoch)
       IN vop' = [vop EXCEPT
                    !.env = Some(envelope_new(encrypt_node_value(key, vop.pt[1]))),
                    !.pc = "create"]
    /\ UNCHANGED <<now, gv, ep, sideVars, guardVars, runnerVars, files, device_secret, dirs,
                   last_write, first_secret>>

\* fs::File::create(&temp_path): creates or truncates
VaultWriteCreate ==
    /\ vop.op = "write" /\ vop.pc = "create"
    /\ files' = [files EXCEPT ![temp_path(vop.id)] = FileOf(vop.env[1], 0)]
    /\ vop' = [vop EXCEPT !.pc = "write"]
    /\ UNCHANGED <<now, gv, ep, sideVars, guardVars, runnerVars, device_secret, dirs, last_write,
                   first_secret>>

\* file.write_all: one more chunk of the text reaches the file
VaultWriteChunk ==
    /\ vop.op = "write" /\ vop.pc = "write"
    /\ LET f == files[temp_path(vop.id)][1] IN
       /\ f.n < NumChunks
       /\ files' = [files EXCEPT ![temp_path(vop.id)] = FileOf(f.env, f.n + 1)]
       /\ vop' = [vop EXCEPT !.pc = IF f.n + 1 = NumChunks THEN "sync" ELSE "write"]
    /\ UNCHANGED <<now, gv, ep, sideVars, guardVars, runnerVars, device_secret, dirs, last_write,
                   first_secret>>

\* file.sync_all
VaultWriteSync ==
    /\ vop.op = "write" /\ vop.pc = "sync"
    /\ vop' = [vop EXCEPT !.pc = "chmod"]
    /\ UNCHANGED <<now, gv, ep, sideVars, guardVars, runnerVars, files, device_secret, dirs,
                   last_write, first_secret>>

\* fs::set_permissions(&temp_path, 0o600)
VaultWriteChmod ==
    /\ vop.op = "write" /\ vop.pc = "chmod"
    /\ vop' = [vop EXCEPT !.pc = "rename"]
    /\ UNCHANGED <<now, gv, ep, sideVars, guardVars, runnerVars, files, device_secret, dirs,
                   last_write, first_secret>>

\* fs::rename(&temp_path, &final_path), then Ok(())
VaultWriteRename ==
    /\ vop.op = "write" /\ vop.pc = "rename"
    /\ LET src == temp_path(vop.id)
           dst == secret_path(vop.id)
       IN files' = IF src = dst THEN files
                   ELSE [files EXCEPT ![dst] = files[src], ![src] = None]
    /\ vop' = [vop EXCEPT !.pc = "returned", !.result = ResOk]
    /\ last_write' = [last_write EXCEPT
                        ![vop.id] = Some([epoch |-> vop.epoch, pt |-> vop.pt[1]])]
    /\ UNCHANGED <<now, gv, ep, sideVars, guardVars, runnerVars, device_secret, dirs, first_secret>>

\* the step at hand fails with an I/O error: `?` returns Err
VaultWriteIoError ==
    /\ vop.op = "write" /\ vop.pc \in WriteSteps
    /\ vop' = [vop EXCEPT !.pc = "failed", !.result = ResErr]
    /\ UNCHANGED <<now, gv, ep, sideVars, guardVars, runnerVars, files, device_secret, dirs,
                   last_write, first_secret>>

\* the process dies in the middle of write_node_secret
VaultCrash ==
    /\ vop.op = "write" /\ vop.pc \in WriteSteps
    /\ vop' = [vop EXCEPT !.pc = "crashed"]
    /\ UNCHANGED <<now, gv, ep, sideVars, guardVars, runnerVars, files, device_secret, dirs,
                   last_write, first_secret>>

(* ---- read_node_secret, delete_node_secret ---- *)
VaultRead(id, e) ==
    /\ VaultIdle
    /\ LET sec == load_or_create_device_secret(device_secret,
                                               fresh_secret(files, device_secret))
           derives == read_derives_key(files, id)
       IN /\ vop' = [NoOp EXCEPT
                       !.op = "read", !.id = id, !.epoch = e, !.pc = "returned",
                       !.pre = files[secret_path(id)],
                       !.dev = IF derives /\ sec.ok THEN Some(sec.secret) ELSE None,
                       !.derive = derives,
                       !.result = read_node_secret(files, device_secret, e, id)]
          /\ device_secret' = device_after_read(files, device_secret, id)
          /\ first_secret' = IF derives THEN note_secret(first_secret, sec)
                             ELSE first_secret
    /\ UNCHANGED <<now, gv, ep, sideVars, guardVars, runnerVars, files, dirs, last_write>>

\* variant of delete_node_secret: the file is left in place
delete_node_secret_keep(fs, id) == fs
\* delete_node_secret: remove_file if the path exists
delete_node_secret(fs, id) == [fs EXCEPT ![secret_path(id)] = None]

\* clear_credentials / delete_node_secret returns Ok
VaultDelete(id) ==
    /\ VaultIdle
    /\ files' = delete_node_secret(files, id)
    /\ vop' = [NoOp EXCEPT !.op = "delete", !.id = id, !.pc = "returned",
                           !.pre = files[secret_path(id)], !.result = ResOk]
    /\ last_write' = [last_write EXCEPT ![id] = None]
    /\ UNCHANGED <<now, gv, ep, sideVars, guardVars, runnerVars, device_secret, dirs, first_secret>>

\* delete_node_secret: fs::remove_file fails, `?` returns Err
VaultDeleteIoError(id) ==
    /\ VaultIdle
    /\ files[secret_path(id)] # None
    /\ vop' = [NoOp EXCEPT !.op = "delete", !.id = id, !.pc = "failed",
                           !.pre = files[secret_path(id)], !.result = ResErr]
    /\ UNCHANGED <<now, gv, ep, sideVars, guardVars, runnerVars, files, device_secret, dirs,
                   last_write, first_secret>>

\* node.auth.authenticate: authenticate_node loads the credentials and asks the
\* identity endpoint; handle_auth_authenticate names the error; the auth thread
\* of main sets the guard failed and exits
VaultAuthenticate ==
    /\ VaultIdle
    /\ LET creds == load_credentials(files, device_secret)
           sec == load_or_create_device_secret(device_secret,
                                               fresh_secret(files, device_secret))
           derives == read_derives_key(files, SECRET_ID_NODE_CREDENTIALS)
       IN
       \E resp \in (IF creds.kind = "ok" THEN AuthResponses ELSE {NoAuthResponse}) :
          LET r == resp
              code == IF creds.kind = "ok" /\ r.kind = "ok" THEN "ok"
                      ELSE auth_error_code(resp)
          IN /\ files' = vault_after_auth(code, files)
             /\ vop' = [NoOp EXCEPT !.op = "auth", !.pc = "returned",
                                    !.epoch = resolve_security_epoch,
                                    !.pre = files[secret_path(SECRET_ID_NODE_CREDENTIALS)],
                                    !.dev = IF derives /\ sec.ok THEN Some(sec.secret)
                                            ELSE None,
                                    !.derive = derives,
                                    !.arg = Some(creds),
                                    !.result = [kind |-> code, value |-> None],
                                    !.resp = resp]
             /\ device_secret' =
                   device_after_read(files, device_secret, SECRET_ID_NODE_CREDENTIALS)
             /\ first_secret' = IF derives THEN note_secret(first_secret, sec)
                                ELSE first_secret
    /\ UNCHANGED <<now, gv, ep, sideVars, guardVars, runnerVars, dirs, last_write>>

VaultNext ==
    \/ \E s \in NodeIdInputs, sec \in NodeSecretInputs, e \in Epochs :
          CredentialsSet(s, sec, e)
    \/ VaultDirsExist \/ VaultCreateDirAll \/ VaultChmodNode \/ VaultChmodValues
    \/ VaultSecretLoad \/ VaultSecretCreate \/ VaultSecretChunk \/ VaultSecretChmod
    \/ VaultWritePrepare \/ VaultWriteCreate \/ VaultWriteChunk \/ VaultWriteSync
    \/ VaultWriteChmod \/ VaultWriteRename \/ VaultWriteIoError \/ VaultCrash
    \/ \E id \in SecretIds, e \in Epochs : VaultRead(id, e)
    \/ \E id \in SecretIds : VaultDelete(id) \/ VaultDeleteIoError(id)
    \/ VaultAuthenticate

(* ---- the credential managers of the host and of the Desktop Core ---- *)
Managers == {"host", "core"}
\* get_security_epoch of the host's node_credentials.rs
get_security_epoch(env) == unwrap_or(parse_env_epoch(env), 1)
\* the epoch a manager passes to write_node_secret and read_node_secret
manager_epoch(m, e) ==
    IF m = "host" THEN get_security_epoch(e.env)
    ELSE resolve_with_source(parse_env_epoch(e.env), e.marker).epoch
\* store_credentials of manager m on the home
StoreCredentials(m) ==
    /\ ep.store = None
    /\ LET epoch == manager_epoch(m, ep)
           key == derive_node_vault_key("device", epoch) IN
       ep' = [ep EXCEPT !.store = Some([by |-> m, epoch |-> epoch,
                                         file |-> encrypt_node_value(key, "creds")])]
    /\ UNCHANGED <<now, gv, sideVars, guardVars, runnerVars, vaultVars>>
\* load_credentials of manager m at a later start on the same home
LoadCredentials(m) ==
    /\ ep.store # None /\ ep.load = None
    /\ LET epoch == manager_epoch(m, ep)
           key == derive_node_vault_key("device", epoch) IN
       ep' = [ep EXCEPT !.load = Some([by |-> m, epoch |-> epoch,
                                        ok |-> decrypt_node_value(key, ep.store[1].file).ok])]
    /\ UNCHANGED <<now, gv, sideVars, guardVars, runnerVars, vaultVars>>
ManagersNext == \E m \in Managers : StoreCredentials(m) \/ LoadCredentials(m)

(* ---- two concurrent write_node_secret calls for the same secret id ---- *)
Writers == {1, 2}
\* the other of the two calls
Other(w) == 3 - w
\* the device secret a call generates (fill_bytes), and the device secret file
\* of a home that has one
SecretOf(w) == <<"secret", w>>
\* the JSON text of the envelope of call w, in blocks: the two texts differ in
\* length
EnvLen(w) == w
EnvelopeOf(w) == [i \in 1..EnvLen(w) |-> <<w, i>>]
\* write_all at offset 0 of a file holding `content`
overwrite(content, text) ==
    [i \in 1..(IF Len(content) > Len(text) THEN Len(content) ELSE Len(text)) |->
        IF i <= Len(text) THEN text[i] ELSE content[i]]
\* variant of conc_temp_path: every call has a temp file of its own
conc_temp_path_own(w) == w
\* final_path.with_extension("enc.tmp"): the same path for every call
conc_temp_path(w) == 1
TempPaths == {conc_temp_path(w) : w \in Writers}

NoWriter == [pc |-> "start", secret |-> None, fd |-> 0, result |-> "none"]
\* no call is made: the value of cw in the other specifications
CwIdle ==
    [home_secret |-> FALSE, secret |-> None, inode |-> <<>>,
     tmp |-> [t \in {1, 2} |-> 0], final |-> 0, renamed |-> <<>>,
     w |-> [w \in Writers |-> [NoWriter EXCEPT !.pc = "idle"]]]
\* two calls start on a home with or without a device secret file, with or
\* without an earlier envelope at the destination
WritersInit ==
    cw \in {[CwIdle EXCEPT !.home_secret = h,
                           !.secret = IF h THEN Some(SecretOf(0)) ELSE None,
                           !.inode = IF f THEN <<EnvelopeOf(1)>> ELSE <<>>,
                           !.final = IF f THEN 1 ELSE 0,
                           !.w = [w \in Writers |-> NoWriter]] :
              h \in BOOLEAN, f \in BOOLEAN}

\* load_or_create_device_secret: path.exists()
ConcSecretExists(w) ==
    /\ cw.w[w].pc = "start"
    /\ cw' = [cw EXCEPT !.w[w].pc = IF cw.secret # None THEN "secret_open"
                                    ELSE "secret_create"]
    /\ UNCHANGED <<now, gv, ep, rs, bs, guardVars, runnerVars, vaultVars>>
\* File::open, read_exact of 32 bytes: an error on a file that is still empty
ConcSecretOpen(w) ==
    /\ cw.w[w].pc = "secret_open"
    /\ IF cw.secret[1] = <<>>
       THEN cw' = [cw EXCEPT !.w[w].pc = "failed", !.w[w].result = "Err"]
       ELSE cw' = [cw EXCEPT !.w[w].pc = "tmp_create", !.w[w].secret = cw.secret]
    /\ UNCHANGED <<now, gv, ep, rs, bs, guardVars, runnerVars, vaultVars>>
\* fill_bytes, fs::File::create(&path): the file is created or truncated
ConcSecretCreate(w) ==
    /\ cw.w[w].pc = "secret_create"
    /\ cw' = [cw EXCEPT !.secret = Some(<<>>), !.w[w].pc = "secret_write"]
    /\ UNCHANGED <<now, gv, ep, rs, bs, guardVars, runnerVars, vaultVars>>
\* file.write_all(&secret) in one write, set_permissions, Ok(secret)
ConcSecretWrite(w) ==
    /\ cw.w[w].pc = "secret_write"
    /\ cw' = [cw EXCEPT !.secret = Some(SecretOf(w)), !.w[w].pc = "tmp_create",
                        !.w[w].secret = Some(SecretOf(w))]
    /\ UNCHANGED <<now, gv, ep, rs, bs, guardVars, runnerVars, vaultVars>>
\* fs::File::create(&temp_path): a new file, or the file of that name truncated
ConcTempCreate(w) ==
    /\ cw.w[w].pc = "tmp_create"
    /\ LET t == conc_temp_path(w) IN
       IF cw.tmp[t] = 0
       THEN cw' = [cw EXCEPT !.inode = Append(@, <<>>), !.tmp[t] = Len(cw.inode) + 1,
                             !.w[w].fd = Len(cw.inode) + 1, !.w[w].pc = "tmp_write"]
       ELSE cw' = [cw EXCEPT !.inode[cw.tmp[t]] = <<>>,
                             !.w[w].fd = cw.tmp[t], !.w[w].pc = "tmp_write"]
    /\ UNCHANGED <<now, gv, ep, rs, bs, guardVars, runnerVars, vaultVars>>
\* file.write_all(json.as_bytes()) in one write at offset 0, file.sync_all()
ConcTempWrite(w) ==
    /\ cw.w[w].pc = "tmp_write"
    /\ cw' = [cw EXCEPT !.inode[cw.w[w].fd] = overwrite(@, EnvelopeOf(w)),
                        !.w[w].pc = "tmp_chmod"]
    /\ UNCHANGED <<now, gv, ep, rs, bs, guardVars, runnerVars, vaultVars>>
\* fs::set_permissions(&temp_path, 0o600): an error when the path is gone
ConcTempChmod(w) ==
    /\ cw.w[w].pc = "tmp_chmod"
    /\ IF cw.tmp[conc_temp_path(w)] = 0
       THEN cw' = [cw EXCEPT !.w[w].pc = "failed", !.w[w].result = "Err"]
       ELSE cw' = [cw EXCEPT !.w[w].pc = "rename"]
    /\ UNCHANGED <<now, gv, ep, rs, bs, guardVars, runnerVars, vaultVars>>
\* fs::rename(&temp_path, &final_path), Ok(()): an error when the path is gone
ConcRename(w) ==
    /\ cw.w[w].pc = "rename"
    /\ LET t == conc_temp_path(w) IN
       IF cw.tmp[t] = 0
       THEN cw' = [cw EXCEPT !.w[w].pc = "failed", !.w[w].result = "Err"]
       ELSE cw' = [cw EXCEPT !.final = cw.tmp[t], !.tmp[t] = 0,
                             !.renamed = Append(@, cw.inode[cw.tmp[t]]),
                             !.w[w].pc = "done", !.w[w].result = "Ok"]
    /\ UNCHANGED <<now, gv, ep, rs, bs, guardVars, runnerVars, vaultVars>>

WritersNext ==
    \E w \in Writers :
       \/ ConcSecretExists(w) \/ ConcSecretOpen(w) \/ ConcSecretCreate(w)
       \/ ConcSecretWrite(w) \/ ConcTempCreate(w) \/ ConcTempWrite(w)
       \/ ConcTempChmod(w) \/ ConcRename(w)

\* the side variables in the specifications that do not use them
SideIdle == rs = RsIdle /\ bs = BsIdle /\ cw = CwIdle

(* ---- a home directory as an earlier run may have left it ---- *)
\* credentials stored by an earlier run
HomeCreds == creds_to_json([node_id |-> 1, node_secret |-> [k |-> 1, chars |-> 16, bytes |-> 16]])
\* bytes that are the ciphertext of no key
GarbageCipher == [key |-> <<0, 0>>, pt |-> HomeCreds]
\* EncryptedEnvelope as JSON with the given version, under device secret 1
HomeEnvelope(v, e, pt) ==
    [v |-> v, data_b64 |-> b64_encode(encrypt_node_value(derive_node_vault_key(1, e), pt))]
\* the credentials file: absent; written by this release under epoch 1 or 2;
\* written with another envelope version (2, or 257 which is 1 modulo 2^8);
\* holding a plaintext
\* that is not JSON or whose node_id is not a UUID; holding text that is not
\* base64 or bytes that are no ciphertext; or cut short
HomeFiles ==
    {None,
     FileOf(HomeEnvelope(CURRENT_VERSION, 1, HomeCreds), NumChunks),
     FileOf(HomeEnvelope(CURRENT_VERSION, 2, HomeCreds), NumChunks),
     FileOf(HomeEnvelope(CURRENT_VERSION + 1, 1, HomeCreds), NumChunks),
     FileOf(HomeEnvelope(CURRENT_VERSION + 256, 1, HomeCreds), NumChunks),
     FileOf(HomeEnvelope(CURRENT_VERSION, 1, <<"raw", HomeCreds[2]>>), NumChunks),
     FileOf(HomeEnvelope(CURRENT_VERSION, 1,
                         <<"json", [HomeCreds[2] EXCEPT !.node_id = <<"text", 1>>]>>),
            NumChunks),
     FileOf([v |-> CURRENT_VERSION, data_b64 |-> <<"text", GarbageCipher>>], NumChunks),
     FileOf([v |-> CURRENT_VERSION, data_b64 |-> b64_encode(GarbageCipher)], NumChunks),
     FileOf(HomeEnvelope(CURRENT_VERSION, 1, HomeCreds), 1)}
\* the device secret file: absent, whole (of this device or of another one),
\* or cut short by a crash while it was created
HomeDeviceSecrets ==
    {None, SecretFile(1, NumChunks), SecretFile(2, NumChunks), SecretFile(1, 1)}
\* the directories: absent, created and not yet tightened, or tightened
HomeDirs ==
    {[node |-> "absent", values |-> "absent"], [node |-> "umask", values |-> "umask"],
     [node |-> "0700", values |-> "umask"], [node |-> "0700", values |-> "0700"]}

HomeInit ==
    /\ now = 0 /\ gv = GvIdle /\ ep = EpIdle /\ SideIdle /\ GuardInit /\ RunnerInit
    /\ files \in {[p \in Paths |->
                      IF p = secret_path(SECRET_ID_NODE_CREDENTIALS) THEN f ELSE None] :
                   f \in HomeFiles}
    /\ device_secret \in HomeDeviceSecrets
    /\ dirs \in HomeDirs
    /\ has_credentials(files) => dirs.values # "absent"
    /\ vop = NoOp
    /\ last_write = [id \in SecretIds |-> None]
    /\ first_secret = None

(***************************************************************************)
(* Specifications                                                          *)
(***************************************************************************)
Init == now = 0 /\ gv = GvIdle /\ ep = EpIdle /\ SideIdle /\ GuardInit /\ RunnerInit /\ VaultInit

RunnerStep ==
    \/ RunnerStart \/ LoopTop \/ PollReturned
    \/ EmptyWaitSleep \/ EmptyWaitChanged \/ BatchNext
    \/ CallGetSession \/ CallHeaders \/ CallRefresh
    \/ CallAuthOk \/ CallAuthErr \/ CallTransportErr \/ CallResponse
    \/ ClaimReturned \/ ExecSession \/ ExecSessionAuthOk \/ ExecSessionAuthErr
    \/ DispatchReturn \/ CompleteReturned \/ FailReturned
    \/ BackoffWait \/ Sleep1

\* a heartbeat callback in progress moves on
HbStep == \E p \in HbProcs : HbAuthOk(p) \/ HbAuthErr(p) \/ HbSendReturn(p)

Next ==
    \/ RunnerStep
    \/ ExecutorDone
    \/ \E p \in HbProcs : HbInvoke(p)
    \/ HbStep
    \/ SignalShutdown \/ DropSender \/ RunnerTick

Spec == Init /\ [][Next]_vars

GuardNext ==
    \/ StartupTryStart \/ StartupRequest \/ StartupAuthOk \/ StartupAuthFail
    \/ StartupExit
    \/ \E t \in Threads :
         SetAuthenticatedState(t) \/ SetAuthenticatedError(t) \/ SetFailedError(t)
    \/ \E t \in StatsThreads :
         \/ StatsGetToken(t) \/ StatsCheckState(t) \/ StatsReadError(t)
         \/ StatsHasCredentials(t)
         \/ StatsTryStart(t) \/ StatsRequest(t) \/ StatsAuthOk(t)
         \/ StatsAuthFail(t) \/ StatsProceed(t)
    \/ GuardTick

SpecGuard == Init /\ [][GuardNext]_vars

SpecStatus == Init /\ [][StatusNext]_vars

BootstrapSpecInit ==
    /\ now = 0 /\ gv = GvIdle /\ ep = EpIdle /\ rs = RsIdle /\ cw = CwIdle /\ BootstrapInit
    /\ GuardInit /\ RunnerInit /\ VaultInit
SpecBootstrap == BootstrapSpecInit /\ [][BootstrapNext]_vars

WritersSpecInit ==
    /\ now = 0 /\ gv = GvIdle /\ ep = EpIdle /\ rs = RsIdle /\ bs = BsIdle
    /\ WritersInit /\ GuardInit /\ RunnerInit /\ VaultInit
SpecWriters == WritersSpecInit /\ [][WritersNext]_vars

CacheInit == now = 0 /\ GvInit /\ ep = EpIdle /\ SideIdle /\ GuardInit /\ RunnerInit /\ VaultInit

CacheNext == GvCall

SpecCache == CacheInit /\ [][CacheNext]_vars

\* the loop at the top of its body after n consecutive poll failures,
\* n from LongRunFrom on
LongInit ==
    /\ now = 0 /\ gv = GvIdle /\ ep = EpIdle /\ SideIdle /\ GuardInit /\ VaultInit
    /\ session_holder \in {Some([expires_at |-> life]) :
                             life \in {l \in TokenLifetimes : l > EXPIRY_MARGIN_SECS}}
    /\ shutdown = [value |-> FALSE, version |-> 0, seen |-> 0, sender |-> TRUE]
    /\ rpc = "loop_top"
    /\ call = NoCall
    /\ tasks = <<>>
    /\ task = NoTask
    /\ consecutive_errors \in LongRunFrom..(MaxFailures - 1)
    /\ backoff_secs = 0
    /\ status = [enabled |-> TRUE, state |-> "Error", last_error |-> TRUE,
                 stops |-> 0]
    /\ hb = [p \in HbProcs |-> "idle"]
    /\ waited = [after |-> "error", secs |-> MAX_BACKOFF_SECS + 1,
                 run |-> consecutive_errors - 1]

\* the runner from its start, or from the end of a long outage
SpecLong == (Init \/ LongInit) /\ [][Next]_vars

\* the node vault and the authentication that reads it
SpecVault == Init /\ [][VaultNext]_vars

\* the node vault on a home directory left by an earlier run
SpecHome == HomeInit /\ [][VaultNext]_vars

\* resolve_with_source, called twice in a process, the marker changing between
EpochSpecInit == now = 0 /\ gv = GvIdle /\ EpochInit /\ SideIdle /\ GuardInit /\ RunnerInit /\ VaultInit

SpecEpoch == EpochSpecInit /\ [][EpochNext]_vars

\* the two credential managers on a home, under an environment
SpecManagers == EpochSpecInit /\ [][ManagersNext]_vars

\* the loop takes its steps, the executor finishes, heartbeat calls return
LiveSpec == Spec /\ WF_vars(RunnerStep) /\ WF_vars(ExecutorDone) /\ WF_vars(HbStep)

(***************************************************************************)
(* Properties                                                              *)
(***************************************************************************)
\* C1: of all try_start() calls racing from Unauthenticated exactly one
\* returns true and leaves the guard Authenticating; a thread of either
\* guarded path whose try_start() returned false issues no authentication
\* request.
ThmC1 ==
    /\ try_start_wins <= 1
    /\ try_start_calls >= 1 => try_start_wins = 1
    /\ try_start_wins = 1 => auth_state # "Unauthenticated"
    /\ auth_requests <= try_start_wins
    /\ \A t \in Threads :
         /\ thr[t].issued > 0 => (thr[t].tried /\ thr[t].started)
         /\ thr[t].pc \in {"auth", "awaiting"} =>
              (thr[t].started /\ auth_state = "Authenticating")

WitC1 ==
    /\ try_start_calls >= 2
    /\ \E t \in StatsThreads :
         thr[t].tried /\ ~thr[t].started /\ thr[t].ret = "in_progress"
    /\ \E t \in Threads : thr[t].started /\ thr[t].issued = 1

\* C2: once the guard is Failed it stays Failed; no later try_start() returns
\* true and no guarded path issues another authentication request.
ThmC2 ==
    [][auth_state = "Failed" =>
         /\ auth_state' = "Failed"
         /\ try_start_wins' = try_start_wins
         /\ auth_requests' = auth_requests]_vars

WitC2 ==
    /\ auth_state = "Failed" /\ alive
    /\ \E t \in StatsThreads : thr[t].ret = "failed_terminal"
    /\ \E t \in StatsThreads : thr[t].tried /\ ~thr[t].started

\* how the runner classifies the outcome of one request
Class(r) ==
    IF r = NoResponse THEN "no_response"
    ELSE IF is_success(r.status) THEN "success"
    ELSE IF r.status = 401 \/ r.marker THEN "token_expired"
    ELSE "other"

\* C3: one invocation of poll/claim/complete/fail sends at most two requests;
\* the second only after a token-expired first response and a successful
\* forced refresh; a token-expired second response ends the call with an
\* error and no further refresh; any other failure of the first attempt ends
\* the call with an error and the cache not cleared.
ThmC3 ==
    /\ call.requests <= 2
    /\ Len(call.hist) <= call.requests
    /\ call.clears <= 1
    /\ call.requests = 2 =>
         /\ Class(call.hist[1]) = "token_expired"
         /\ call.clears = 1 /\ call.refresh_ok
    /\ (Len(call.hist) = 2 /\ Class(call.hist[2]) # "success") =>
         /\ call.phase = "returned" /\ call.result = "Err"
         /\ call.clears = 1
    /\ (Len(call.hist) >= 1 /\ Class(call.hist[1]) \in {"other", "no_response"}) =>
         /\ call.phase = "returned" /\ call.result = "Err"
         /\ call.clears = 0 /\ call.requests = 1

WitC3 ==
    /\ call.op = "fail" /\ call.phase = "returned" /\ call.requests = 2
    /\ Class(call.hist[1]) = "token_expired"
    /\ Class(call.hist[2]) = "token_expired"
    /\ call.result = "Err"

\* C4 (as claimed): a poll that starts on a valid cached session, gets 401 and
\* then 200 with a task list has called authenticate_node exactly once.
CexC4 ==
    (/\ call.op = "poll" /\ call.phase = "returned" /\ call.result = "Ok"
     /\ Len(call.hist) = 2
     /\ call.hist[1].status = 401 /\ call.hist[2].status = 200
     /\ call.first_auths = 0)
    => call.auths = 1

\* C5 (as claimed): the refreshes of the runner loop and of the heartbeat
\* callbacks never duplicate: at most one authenticate_node call is in flight
\* for the shared session holder at any time.
CexC5 == AuthInFlight <= 1

\* C6: get_valid() of either holder returns the stored token if and only if a
\* token is stored and its expires_at is more than 60 seconds after the current
\* time; 30 seconds ahead gives None, 120 seconds ahead gives the token.
ThmC6 ==
    gv.called =>
      /\ (gv.out # None) <=>
            (gv.stored # None /\ gv.stored[1].expires_at > gv.at + 60)
      /\ gv.out # None => gv.out = gv.stored
      /\ (gv.stored # None /\ gv.stored[1].expires_at = gv.at + 30) => gv.out = None
      /\ (gv.stored # None /\ gv.stored[1].expires_at = gv.at + 120) => gv.out # None

WitC6 ==
    /\ gv.called /\ gv.holder = "NodeSessionHolder" /\ gv.stored # None
    /\ gv.stored[1].expires_at = gv.at + 120 /\ gv.out = gv.stored

\* positions of the loop inside process_task
InProcessTask ==
    {"claim", "exec_session", "exec_session_auth", "dispatch", "dispatch_end",
     "complete", "fail"}

\* C7: a claimed task gets exactly one complete_task or fail_task invocation
\* before process_task returns, whatever the shutdown signal does; a task whose
\* claim failed is never dispatched, completed or failed; the loop claims the
\* next task or exits only after process_task returned.
ThmC7 ==
    /\ task.completes + task.fails <= 1
    /\ (task.claimed /\ task.returned) => task.completes + task.fails = 1
    /\ ~task.claimed =>
         (~task.dispatched /\ task.completes = 0 /\ task.fails = 0)
    /\ (task.id # 0 /\ rpc \notin InProcessTask) => task.returned
    /\ task.returned => rpc \notin InProcessTask

WitC7 ==
    /\ task.claimed /\ task.returned /\ task.fails = 1 /\ task.completes = 0
    /\ shutdown.value /\ rpc = "done"

\* C8 (as claimed): a claimed task is dropped by process_task only after the
\* server acknowledged its completion or its failure.
CexC8 == (task.claimed /\ task.returned) => task.acked

ExpectedBackoff(n) ==
    IF n <= MAX_CONSECUTIVE_ERRORS THEN POLL_INTERVAL_SECS
    ELSE IF n - MAX_CONSECUTIVE_ERRORS >= 4 THEN MAX_BACKOFF_SECS
    ELSE Min(POLL_INTERVAL_SECS * (2 ^ (n - MAX_CONSECUTIVE_ERRORS)), MAX_BACKOFF_SECS)

\* C11 (as claimed): after a poll that returned an empty task list, with no
\* shutdown signalled, the next poll starts no sooner than POLL_INTERVAL_SECS
\* later, whatever the state of the shutdown channel.
CexC11 ==
    [][(rpc = "loop_top" /\ rpc' = "poll" /\ waited.after = "empty")
         => waited.secs >= POLL_INTERVAL_SECS]_vars

\* C12 (as claimed): after n consecutive poll failures the wait computed for
\* the next poll is 5 s for n <= 3 and min(5 x 2^(n-3), 60) s above, for every
\* n: more than 5 s after 4 failures, never more than 60 s.
CexC12 ==
    (rpc = "backoff_wait" /\ waited.after = "error") =>
        /\ backoff_secs = ExpectedBackoff(consecutive_errors)
        /\ backoff_secs <= MAX_BACKOFF_SECS
        /\ consecutive_errors >= 4 => backoff_secs > POLL_INTERVAL_SECS

\* C13: a successful poll, empty or not, sets the consecutive-failure counter
\* to 0 whatever the length of the run of failures before it; the counter
\* stays 0 until the next failure, which is counted as the first and waits the
\* base interval.
ThmC13 ==
    [][/\ (rpc = "poll" /\ rpc' # "poll" /\ call.result = "Ok") =>
            (consecutive_errors' = 0 /\ waited'.after \in {"empty", "batch"})
       /\ waited'.after \in {"empty", "batch"} => consecutive_errors' = 0
       /\ (rpc = "poll" /\ rpc' # "poll" /\ call.result = "Err"
           /\ consecutive_errors = 0) =>
            (consecutive_errors' = 1 /\ backoff_secs' = POLL_INTERVAL_SECS)
       /\ ~(rpc = "poll" /\ rpc' # "poll") =>
            consecutive_errors' = consecutive_errors]_vars

WitC13 ==
    /\ waited.after = "empty" /\ waited.run > MAX_CONSECUTIVE_ERRORS
    /\ consecutive_errors = 0 /\ rpc = "empty_wait"

\* C14 (as claimed): no failure ends the runner: the loop is over only after
\* it observed the shutdown signal, for any number of consecutive failures.
CexC14 == rpc \in {"done", "panicked"} => (rpc = "done" /\ shutdown.value)

\* C15: the tasks of a batch are processed one after another in the order
\* returned: a claim starts only when the task before it has left
\* process_task, and takes the next task of the batch; no poll starts while
\* tasks of the batch are left or a task is in process_task.
ThmC15 ==
    [][/\ (rpc' = "claim" /\ rpc # "claim") =>
            /\ task.id = 0 \/ task.returned
            /\ task'.id = task.id + 1
            /\ ~task'.claimed /\ ~task'.returned
       /\ (rpc' = "poll" /\ rpc # "poll") =>
            (tasks = <<>> /\ task = NoTask /\ rpc \notin InProcessTask)
       /\ rpc' \in InProcessTask => call'.op # "poll"]_vars

WitC15 ==
    /\ task.id = 2 /\ task.claimed /\ rpc = "dispatch" /\ tasks = <<>>

\* C16: at every step of write_node_secret, and after an I/O error or a crash
\* at any of them, the destination <secret_id>.enc is what it was before the
\* call or the complete new envelope, never a partial one; read_node_secret
\* returns a whole plaintext, nothing or an error.
ThmC16 ==
    /\ \A id \in SecretIds :
          files[secret_path(id)] # None => files[secret_path(id)][1].n = NumChunks
    /\ (vop.op = "write" /\ vop.env = None) => files[secret_path(vop.id)] = vop.pre
    /\ (vop.op = "write" /\ vop.env # None) =>
          files[secret_path(vop.id)] \in {vop.pre, FileOf(vop.env[1], NumChunks)}
    /\ (vop.op = "write" /\ vop.pc \in {"failed", "crashed"}) =>
          files[secret_path(vop.id)] = vop.pre
    /\ (vop.op = "read" /\ vop.result.kind = "some") =>
          vop.result.value[1] \in Plaintexts

WitC16 ==
    /\ vop.op = "write" /\ vop.pc = "crashed" /\ vop.pre # None
    /\ files[temp_path(vop.id)] # None
    /\ files[temp_path(vop.id)][1].n \in 1..(NumChunks - 1)
    /\ files[temp_path(vop.id)][1].env # vop.pre[1].env
    /\ files[secret_path(vop.id)] = vop.pre

\* C17: an authentication attempt that fails with a transport error, a
\* non-2xx status that is not a secret error or an unparsable response leaves
\* the vault as it was: has_credentials() and load_credentials() return the
\* same after it as before it.
ThmC17 ==
    [][(vop' # vop /\ vop'.op = "auth"
          /\ vop'.result.kind \in {"NODE_AUTH_FAILED", "NODE_AUTH_ERROR"}) =>
         /\ has_credentials(files') = has_credentials(files)
         /\ load_credentials(files', device_secret')
              = load_credentials(files, device_secret)]_vars

WitC17 ==
    /\ vop.op = "auth" /\ vop.result.kind = "NODE_AUTH_FAILED"
    /\ vop.resp.status = 401 /\ vop.resp.body = ErrorBody("rate_limited")
    /\ has_credentials(files)
    /\ load_credentials(files, device_secret).kind = "ok"

\* C18 (as claimed): once an authentication failure with a secret error (401
\* or 403 with invalid_secret, secret_revoked or invalid_credentials) has been
\* handled, has_credentials() is false.
CexC18 ==
    (vop.op = "auth" /\ vop.pc = "returned"
       /\ vop.result.kind = "NODE_SECRET_INVALID") => ~has_credentials(files)

\* C19: read_node_secret under the epoch of the last write_node_secret that
\* returned Ok for the id, with no write or delete of the id since, returns
\* Some of the plaintext written; load_credentials after store_credentials
\* returns the (node_id, node_secret) stored.
ThmC19 ==
    /\ (vop.op = "read" /\ last_write[vop.id] # None
          /\ last_write[vop.id][1].epoch = vop.epoch) =>
         vop.result = ResSome(last_write[vop.id][1].pt)
    /\ (last_write[SECRET_ID_NODE_CREDENTIALS] # None
          /\ last_write[SECRET_ID_NODE_CREDENTIALS][1].epoch = resolve_security_epoch) =>
         \E c \in Credentials :
            /\ last_write[SECRET_ID_NODE_CREDENTIALS][1].pt = creds_to_json(c)
            /\ load_credentials(files, device_secret) =
                  [kind |-> "ok", value |-> Some(c)]

WitC19 ==
    /\ vop.op = "read" /\ vop.epoch = 2 /\ last_write[vop.id] # None
    /\ last_write[vop.id][1].epoch = 2
    /\ vop.result.kind = "some"
    /\ creds_from_json(vop.result.value[1]).creds.node_secret.k = 2

\* C20: reading under an epoch other than the one of the last successful
\* write of the id gives an error, neither Ok(None) nor Ok(bytes), and no
\* read changes a file.
ThmC20 ==
    [][(vop' # vop /\ vop'.op = "read") =>
         /\ files' = files /\ device_secret' = device_secret
         /\ (last_write[vop'.id] # None
              /\ last_write[vop'.id][1].epoch # vop'.epoch) =>
                vop'.result = ResErr]_vars

WitC20 ==
    /\ vop.op = "read" /\ vop.epoch = 2 /\ last_write[vop.id] # None
    /\ last_write[vop.id][1].epoch = 1 /\ vop.result = ResErr
    /\ files[secret_path(vop.id)] # None

\* the file is a whole envelope of the supported version, encrypted under the
\* device secret and the epoch of the process, of a JSON with a UUID node_id
Readable(file, secret) ==
    /\ file[1].n = NumChunks
    /\ file[1].env.v = CURRENT_VERSION
    /\ file[1].env.data_b64[1] = "b64"
    /\ file[1].env.data_b64[2].key = <<secret, resolve_security_epoch>>
    /\ file[1].env.data_b64[2].pt[1] = "json"
    /\ file[1].env.data_b64[2].pt[2].node_id[1] = "uuid"

\* C21: load_credentials returns NotConfigured exactly when the credentials
\* file is absent; when the file exists and cannot be parsed, decoded or
\* decrypted it returns VaultError or InvalidNodeId, never NotConfigured and
\* never credentials.
ThmC21 ==
    vop.op = "auth" =>
       LET creds == vop.arg[1] IN
       /\ creds.kind = "NotConfigured" <=> vop.pre = None
       /\ vop.pre # None =>
             IF vop.dev # None /\ Readable(vop.pre, vop.dev[1])
             THEN creds.kind = "ok"
             ELSE creds.kind \in {"VaultError", "InvalidNodeId"}

WitC21 ==
    /\ vop.op = "auth" /\ vop.pre # None
    /\ vop.arg[1].kind = "InvalidNodeId"
    /\ vop.result.kind = "NODE_AUTH_ERROR"

\* C22: has_credentials() is false on a fresh home, true right after a
\* store that returned Ok and false right after a clear that returned Ok, and
\* nothing else changes it: it is true iff the most recent successful
\* operation was a store; a clear on an empty vault returns Ok and leaves it
\* false.
ThmC22 ==
    /\ ~has_credentials(files)
    /\ [][LET stored == vop.op = "write" /\ vop.pc = "rename" /\ vop'.pc = "returned"
              cleared == vop'.op = "delete" /\ vop'.pc = "returned"
          IN /\ stored => vop'.result = ResOk /\ has_credentials(files')
             /\ cleared => vop'.result = ResOk /\ ~has_credentials(files')
             /\ ~(stored \/ cleared) =>
                   has_credentials(files') = has_credentials(files)]_vars

WitC22 ==
    /\ vop.op = "delete" /\ vop.pc = "returned" /\ vop.result = ResOk
    /\ vop.pre # None /\ first_secret # None
    /\ ~has_credentials(files)

\* the input of the nodeCredentials.set request that led to vop
SetInput(op) ==
    IF op.op = "set" THEN op.arg[1]
    ELSE [node_id |-> op.pt[1][2].node_id, node_secret |-> op.pt[1][2].node_secret]

\* C23 (as claimed): a store whose node_id is not a well-formed UUID, or whose
\* node_secret is empty or shorter than 16 characters, fails with the matching
\* validation error and writes nothing: no vault file is created or
\* replaced and has_credentials() is unchanged.
CexC23 ==
    [][(vop' # vop /\ vop'.op \in {"set", "write"} /\ vop'.pc \in {"returned", "dirs"}) =>
         LET in == SetInput(vop') IN
         /\ in.node_id[1] # "uuid" =>
               /\ vop'.op = "set" /\ vop'.result.kind = "INVALID_NODE_ID"
               /\ files' = files
         /\ (in.node_id[1] = "uuid" /\ in.node_secret.chars < 16) =>
               /\ vop'.op = "set" /\ vop'.result.kind = "INVALID_NODE_SECRET"
               /\ files' = files]_vars

\* C24 (as claimed): is_secret_error(status, body) is true iff status is 401
\* or 403 and body is a JSON object whose error field is exactly
\* invalid_secret, secret_revoked or invalid_credentials; here for every
\* failed response authenticate_node hands to it.
CexC24 ==
    (vop.op = "auth" /\ vop.resp.kind = "http") =>
       (vop.result.kind = "NODE_SECRET_INVALID"
          <=> /\ vop.resp.status \in {401, 403}
              /\ vop.resp.body.form = "object"
              /\ vop.resp.body.value # None
              /\ vop.resp.body.value[1] \in {JsonString(c) : c \in SecretErrorCodes})

\* C25: the guard only moves Unauthenticated -> Authenticating ->
\* {Authenticated, Failed}: Authenticating is entered only from
\* Unauthenticated, by a try_start that returned true, and Authenticated or
\* Failed only from Authenticating, by the caller that won try_start.
ThmC25 ==
    [][auth_state' # auth_state =>
         \/ /\ auth_state = "Unauthenticated" /\ auth_state' = "Authenticating"
            /\ try_start_wins' = try_start_wins + 1
            /\ \E t \in Threads : ~thr[t].started /\ thr'[t].started
         \/ /\ auth_state = "Authenticating"
            /\ auth_state' \in {"Authenticated", "Failed"}
            /\ \E t \in Threads :
                  /\ thr[t].started /\ thr[t].pc \in {"awaiting", "set_authenticated"}
                  /\ thr'[t].pc # thr[t].pc
                  /\ \A u \in Threads \ {t} : thr'[u] = thr[u] /\ ~thr[u].started]_vars

WitC25 ==
    /\ auth_state = "Failed" /\ try_start_calls >= 2 /\ try_start_wins = 1
    /\ \E t \in StatsThreads : thr[t].started /\ thr[t].ret = "auth_failed"
    /\ thr[STARTUP].tried /\ ~thr[STARTUP].started

\* C26 (as claimed): resolve_with_source returns the EKKA_SECURITY_EPOCH
\* override if it is a valid u32, else the epoch_seen of the marker as the
\* file reads at the time of the call, else 1; a missing or corrupt marker
\* yields the default.
CexC26 ==
    ep.calls > 0 =>
       IF ep.env.kind = "u32"
       THEN ep.out = [epoch |-> ep.env.n, source |-> "Env"]
       ELSE IF ep.seen.kind = "json" /\ ep.seen.epoch_seen.type = "uint"
                 /\ ep.seen.epoch_seen.hi = 0
            THEN ep.out = [epoch |-> ep.seen.epoch_seen.lo, source |-> "Marker"]
            ELSE ep.out.epoch = 1

\* C27: once load_or_create_device_secret has returned Ok for the home, the
\* secret file holds those 32 bytes for good and every later call, after any
\* failed or crashed operation in between, returns the same bytes.
ThmC27 ==
    first_secret # None =>
       /\ device_secret = SecretFile(first_secret[1], NumChunks)
       /\ vop.dev # None => vop.dev = first_secret

WitC27 ==
    /\ first_secret # None
    /\ vop.op = "read" /\ vop.result.kind = "some" /\ vop.dev = first_secret
    /\ files[temp_path(vop.id)] # None
    /\ files[temp_path(vop.id)][1].n < NumChunks

\* C28 (as claimed): whenever write_node_secret has returned Ok, vault/node
\* and vault/node/values both have mode 0700, also on a home where an earlier
\* call created the directories and was interrupted before it tightened them.
CexC28 ==
    (vop.op = "write" /\ vop.pc = "returned" /\ vop.result = ResOk) =>
       dirs.node = "0700" /\ dirs.values = "0700"

\* C29: a read_node_secret (alone or inside load_credentials) that found a
\* whole envelope whose version is not CURRENT_VERSION has returned an error,
\* neither data nor Ok(None), has not called derive_node_vault_key and has
\* obtained no device secret.
ThmC29 ==
    (/\ vop.op \in {"read", "auth"}
     /\ vop.pre # None
     /\ vop.pre[1].n = NumChunks
     /\ vop.pre[1].env.v # CURRENT_VERSION)
    => /\ vop.op = "read" => vop.result = ResErr
       /\ vop.op = "auth" => vop.arg[1].kind = "VaultError"
       /\ ~vop.derive
       /\ vop.dev = None
\* a read of a version 2 envelope that a version 1 reader could decrypt, on a
\* home whose device secret is present
WitC29 ==
    /\ vop.op = "read"
    /\ vop.pre = FileOf(HomeEnvelope(CURRENT_VERSION + 1, 1, HomeCreds), NumChunks)
    /\ vop.epoch = 1
    /\ device_secret = SecretFile(1, NumChunks)
    /\ vop.result = ResErr

\* C30 (as claimed): a heartbeat whose session refresh failed, whose POST
\* failed or whose POST was answered with a status that is not a success
\* returns Err to the executor; that step ends the callback without another
\* attempt, leaves a cached session in place, leaves the runner status, the
\* position of process_task and the counters of the task alone; and when
\* dispatch_task returns, complete_task follows exactly when the executor
\* returned Ok and fail_task exactly when it returned Err.
CexC30 ==
    [][/\ \A p \in HbProcs :
            /\ (hb[p] \in {"auth", "send"} /\ hb'[p] # hb[p])
               => hb'[p] \in {"send", "ok", "err"}
            /\ (hb[p] \in {"auth", "send"} /\ hb'[p] = "err")
               => /\ session_holder # None => session_holder' = session_holder
                  /\ status' = status
                  /\ rpc' = rpc /\ call' = call
                  /\ consecutive_errors' = consecutive_errors
                  /\ task'.completes = task.completes /\ task'.fails = task.fails
                  /\ task'.returned = task.returned
                  /\ \A q \in HbProcs \ {p} : hb'[q] = hb[q]
       /\ (rpc = "dispatch_end" /\ rpc' # "dispatch_end")
            => /\ task'.exec \in {"Ok", "Err"}
               /\ task'.exec = "Ok" <=> (rpc' = "complete" /\ task'.completes = 1
                                          /\ task'.fails = 0)
               /\ task'.exec = "Err" <=> (rpc' = "fail" /\ task'.fails = 1
                                           /\ task'.completes = 0)
               /\ status' = status]_vars

\* C31: when dispatch_task returns an output envelope, complete_task (and not
\* fail_task) is called with decision ACCEPT exactly when the member success
\* is the boolean true, and otherwise with REJECT and the reason "Task
\* failed: " followed by the member failure_code when that is a string and by
\* UNKNOWN when it is not; when dispatch_task returns an error, fail_task (and
\* not complete_task) is called with the code and retryable flag that
\* classify_error gives; the body stays the same for every request of the
\* call, and no task gets both a completion and a failure.
ThmC31 ==
    [][/\ (rpc = "dispatch_end" /\ rpc' # "dispatch_end") =>
            LET r == task.result[1] IN
            /\ r.kind = "Ok" =>
                 LET env == r.envelope[1]
                     fc == env.failure_code
                     out == call'.output[1]
                 IN /\ rpc' = "complete" /\ call'.op = "complete"
                    /\ call'.failure = None /\ call'.output # None
                    /\ task'.fails = task.fails
                    /\ out.decision = "ACCEPT" <=> env.success = Some(JsonBool(TRUE))
                    /\ out.decision \in {"ACCEPT", "REJECT"}
                    /\ out.decision = "REJECT" =>
                          out.reason = <<"Task failed: ",
                                         IF fc # None /\ fc[1][1] = "string"
                                         THEN fc[1][2] ELSE "UNKNOWN">>
            /\ r.kind = "Err" =>
                 /\ rpc' = "fail" /\ call'.op = "fail"
                 /\ call'.output = None
                 /\ call'.failure = Some([error |-> r.error[1],
                                          code |-> classify_error(r.error[1]).code,
                                          retryable |-> classify_error(r.error[1]).retryable])
                 /\ task'.completes = task.completes
       /\ (call.op \in {"complete", "fail"} /\ call'.op = call.op) =>
            call'.output = call.output /\ call'.failure = call.failure
       /\ task'.completes + task'.fails <= 1]_vars
\* a completion request was sent with REJECT and UNKNOWN for an envelope whose
\* success member is not a boolean
WitC31 ==
    /\ rpc = "complete" /\ call.requests >= 1 /\ task.exec = "Ok"
    /\ call.output = Some([decision |-> "REJECT",
                           reason |-> <<"Task failed: ", "UNKNOWN">>,
                           patch |-> "envelope"])

\* C32 (as claimed): a reader of RunnerState sees Running after on_start and
\* after a successful poll, Error with last_error holding the sanitized text
\* of the failure after a reported failure, and Stopped once the loop has
\* exited.
CexC32 ==
    rs.loop \in {"running", "stopped", "panicked"} =>
       LET st == runner_state_get(rs) IN
       /\ rs.last \in {"start", "poll"} => st.state = "Running"
       /\ rs.last = "error" =>
             /\ st.state = "Error"
             /\ st.last_error # None
             /\ st.last_error[1].redacted = rs.error[1].path
       /\ rs.last = "stop" => st.state = "Stopped"

\* C33 (as claimed): computing the wait never panics; the wait after n
\* consecutive poll failures is never shorter than the wait of the policy
\* after n - 1 failures, and it is exactly MAX_BACKOFF_SECS for every n >= 7,
\* also for n >= 65 and n >= 67.
CexC33 ==
    /\ rpc # "panicked"
    /\ (rpc = "backoff_wait" /\ waited.after = "error") =>
          /\ consecutive_errors >= 2 =>
                backoff_secs >= ExpectedBackoff(consecutive_errors - 1)
          /\ consecutive_errors >= 7 => backoff_secs = MAX_BACKOFF_SECS

\* C34 (as claimed): at most one runner loop is running at any time, however
\* many bootstrap requests with startRunner = true were handled, and the
\* callback that wrote RunnerStatus last came from that loop.
CexC34 ==
    /\ Cardinality(RunningLoops(bs)) <= 1
    /\ (bs.last[1] # 0 /\ RunningLoops(bs) # {}) => RunningLoops(bs) = {bs.last[1]}

\* C35 (as claimed): with two concurrent write_node_secret calls for one
\* secret id, the destination, whenever it exists, holds the complete
\* envelope of one of the writes (or the one it held before), every file
\* renamed into place was such an envelope, and after a call returned Ok the
\* destination holds its envelope or the complete envelope of the other.
CexC35 ==
    /\ cw.final # 0 => cw.inode[cw.final] \in {EnvelopeOf(w) : w \in Writers}
    /\ \A i \in 1..Len(cw.renamed) :
          cw.renamed[i] \in {EnvelopeOf(w) : w \in Writers}
    /\ \A w \in Writers : cw.w[w].result = "Ok" => cw.final # 0

\* C36 (as claimed): when two concurrent calls on a home without a device
\* secret file have both returned from load_or_create_device_secret, both
\* returned Ok with the same bytes, and the file holds those bytes.
CexC36 ==
    (/\ ~cw.home_secret
     /\ \A w \in Writers :
           cw.w[w].pc \notin {"idle", "start", "secret_open", "secret_create",
                              "secret_write"})
    => \A w \in Writers :
          /\ cw.w[w].secret # None
          /\ cw.w[w].secret = cw.w[Other(w)].secret
          /\ cw.w[w].secret = cw.secret

\* C37 (as claimed): on one home and under one environment, credentials
\* stored through the credential manager of the host or of the Desktop Core
\* are loaded by the other under the same epoch, and the load succeeds.
CexC37 ==
    (ep.load # None /\ ep.load[1].by # ep.store[1].by) =>
       /\ ep.load[1].epoch = ep.store[1].epoch
       /\ ep.load[1].ok

\* C38 (as claimed): a caller of handle_runner_task_stats that read the guard
\* as Failed gets the recorded error from get_last_error(), never None, under
\* every interleaving with set_failed; and while the guard is Authenticated
\* get_last_error() is None.
CexC38 ==
    /\ \A t \in StatsThreads : thr[t].ret # "failed_fallback"
    /\ auth_state = "Authenticated" => last_error = None

\* C39: whenever the guard is Authenticated the token cache holds a token,
\* valid or past its margin: the token is stored before set_authenticated
\* runs, and a stored token is never removed.
ThmC39 ==
    [][/\ auth_state = "Authenticated" => node_auth_token # None
       /\ auth_state' = "Authenticated" => node_auth_token' # None
       /\ node_auth_token # None => node_auth_token' # None]_vars

WitC39 ==
    /\ auth_state = "Authenticated" /\ node_auth_token # None
    /\ token_get_valid(node_auth_token, now) = None
    /\ thr[STARTUP].started /\ thr[STARTUP].ret = "ok"

\* the guard is Authenticated and the cached token is within its margin
TokenExpiredForGood ==
    auth_state = "Authenticated" /\ token_get_valid(node_auth_token, now) = None

\* C40: once the guard is Authenticated and get_valid() is None this stays so;
\* no authentication request is issued and try_start never wins again, and
\* every handle_runner_task_stats call entered from then on goes from the
\* token lookup to the state check and returns NOT_AUTHENTICATED ("Token
\* expired, restart app") without reaching the stats request.
ThmC40 ==
    [][TokenExpiredForGood =>
         /\ TokenExpiredForGood'
         /\ auth_requests' = auth_requests
         /\ try_start_wins' = try_start_wins
         /\ node_auth_token' = node_auth_token
         /\ \A t \in StatsThreads :
               /\ (thr[t].pc = "idle" /\ thr'[t] # thr[t]) =>
                     thr'[t].pc = "check_state"
               /\ (thr[t].pc = "check_state" /\ thr'[t] # thr[t]) =>
                     (thr'[t].pc = "idle" /\ thr'[t].ret = "token_expired")]_vars

WitC40 ==
    /\ TokenExpiredForGood /\ now = 60 /\ node_auth_token[1].expires_at = 120
    /\ \E t \in StatsThreads : thr[t].started /\ thr[t].ret = "ok"
    /\ \E t \in StatsThreads : ~thr[t].started /\ thr[t].ret = "token_expired"

====
